---- MODULE Spec2Model ----
(***************************************************************************)
(* QariAI local progress store: the SQLite schema/migration runner         *)
(* (src/db/schema.ts), the attempt/progress data service                   *)
(* (services/data.ts) and the local user service (services/user.ts).       *)
(*                                                                         *)
(* Conventions                                                             *)
(*  - The database is one record `db` with a field per table.  Rows are    *)
(*    records; `attempts` is a sequence in insertion (rowid) order.        *)
(*  - Letter labels are written in Latin transliteration (the source holds *)
(*    the Arabic words); only equality of labels matters to the code.      *)
(*  - REAL accuracies of the `levels` table are kept as whole percents.    *)
(*  - runMigrations() is synchronous: while it runs (mpc # "idle") nothing *)
(*    else is scheduled.  Its steps are separate actions so that the order *)
(*    of BEGIN / schema / marker / COMMIT / seed is observable.            *)
(*  - A storage call inside the try block of runMigrations() may throw;    *)
(*    each such step has a failing branch that leads to the catch block.   *)
(***************************************************************************)
EXTENDS Integers, Sequences, FiniteSets, TLC

VARIABLES
    db,       \* the committed-or-in-transaction contents of qariai.db
    snap,     \* contents at the BEGIN of the open transaction
    inTx,     \* a transaction is open on the connection
    fkOn,     \* PRAGMA foreign_keys of the connection
    mpc,      \* position inside runMigrations(): "idle" when not running
    cur,      \* local `cur` of runMigrations()
    mi,       \* index of the loop `for (const m of MIGRATIONS)`
    si,       \* index of CANON_LETTERS.forEach inside post()
    outcome,  \* how the latest runMigrations() call ended
    h,        \* observation record of the running/latest runMigrations() call
    kv,       \* AsyncStorage value under "qariai:user_id" (NullInt when absent)
    eu,       \* the ensureLocalUser() calls in flight, one record per slot
    nextId,   \* number of ids nanoid() has produced
    last,     \* the latest data-service call: its input and how it ended
    now,      \* the device clock (UTC): [day, tod]
    atStart,  \* number of attempts rows the behaviour starts with
    store,    \* AsyncStorage: currentUser, users, tutorialActive:*, tutorialStep:*
    tour,     \* React state of TutorialProvider: active, step, username
    pend,     \* tutorialStep writes issued by persist() and not yet done
    tpc,      \* positions of the pending start(), finish() and rehydration
    ps        \* React state of PracticeScreen and its suspended handlers

vars == <<db, snap, inTx, fkOn, mpc, cur, mi, si, outcome, h, kv, eu, nextId,
          last, now, atStart, store, tour, pend, tpc, ps>>

migVars  == <<snap, inTx, fkOn, mpc, cur, mi, si, outcome, h>>
userVars == <<kv, eu, nextId>>
envVars  == <<now, atStart>>
tourVars == <<tour, pend, tpc>>

\* null / SQL NULL where a string is expected, and where a number is.
Null == "NULL"
NullInt == -1

\* `last` before any call of the data service; NoAttempt stands for the
\* input of a call that takes none.  value is the number a call returned,
\* prev the level stored for the user when computeAndUpdateLevel began.
NoAttempt ==
    [userId |-> NullInt, targetLetterAr |-> Null, predictedLetterAr |-> Null,
     correct |-> FALSE]

NoCallYet ==
    [op |-> "none", a |-> NoAttempt, result |-> "none", value |-> NullInt,
     prev |-> NullInt]

\* The places ensureLocalUser() is called from while a call of the other
\* may still be pending: the PracticeScreen mount effect and handleSend.
Callers == {"mount", "handleSend"}

\* A caller with no call in flight; ret is what its latest call returned.
IdleFrame == [pc |-> "idle", id |-> NullInt, ret |-> NullInt]

---------------------------------------------------------------------------
(* Accounts and the guided tour in AsyncStorage *)

\* Usernames accounts are created with (AuthScreen accepts 3 to 20 letters,
\* digits and underscores).  Lower is String.toLowerCase on them; the keys
\* of the users map and of the tutorial flags are lower-cased names.
Usernames == {"Amal", "qariai"}
Lower(u) == IF u = "Amal" THEN "amal" ELSE u
NameKeys == { Lower(u) : u \in Usernames }

\* The prefix of the key the local user id is stored under,
\* "qariai:user_id", up to its colon.
KEY_PREFIX == "qariai"

\* The tour's steps in order.
ORDER == <<"home", "levels", "practice", "profile", "done">>
StepNames == { ORDER[i] : i \in 1..Len(ORDER) }

\* AsyncStorage on a device nobody has signed up on: users[k] is the
\* username of the account stored under key k, tutorialActive[k] and
\* tutorialStep[k] the values under "tutorialActive:k" / "tutorialStep:k".
EmptyStore ==
    [currentUser |-> Null,
     users |-> [k \in NameKeys |-> Null],
     tutorialActive |-> [k \in NameKeys |-> Null],
     tutorialStep |-> [k \in NameKeys |-> Null]]

\* Both accounts exist, u is signed in, no tour is persisted.
SignedInStore(u) ==
    [EmptyStore EXCEPT !.currentUser = u,
                       !.users = [k \in NameKeys |->
                                    CHOOSE n \in Usernames : Lower(n) = k]]

\* useState initial values of TutorialProvider.
InitialTour == [active |-> FALSE, step |-> "home", username |-> Null]

\* No start(), finish() or rehydration is suspended at an await.  startUser
\* is the argument u of the suspended start(), finishUser the key name the
\* suspended finish() removes, hydrateUser the local `username` of the
\* effect.  Two fields observe the calls: startedFor is u once start(u) has
\* returned and while only next(), markPracticeDone() and setUsername()
\* calls (and the writes they issued) followed; finishedFor is that u once
\* finish() has returned, until the next start().  startCut tells that a
\* finish() for the name of the suspended start() has returned after the
\* first write of that start().
IdleTpc ==
    [start |-> "idle", startUser |-> Null,
     finish |-> "idle", finishUser |-> Null,
     hydrate |-> "idle", hydrateUser |-> Null,
     startedFor |-> Null, finishedFor |-> Null, startCut |-> FALSE]

\* The provider as mounted, with its rehydration effect run to the end on
\* a store that holds no tour.
TourAtRest == tour = InitialTour /\ pend = {} /\ tpc = IdleTpc

---------------------------------------------------------------------------
(* Bounds of the model *)

MaxCalls == 3        \* runMigrations() calls (app starts) explored
MaxAttempts == 2     \* rows the attempts table may grow by
MaxWeeks == 2        \* weeks the clock may run on
MaxPending == 1      \* tutorialStep writes of persist() in flight at a time
MaxDays == 2         \* days the clock may run on day by day
MaxItems == 2        \* letters.length: items of the lesson practised
MaxTaps == 2         \* handlers of PracticeScreen suspended at a time
MaxSends == 3        \* attempts stored during one lesson

---------------------------------------------------------------------------
(* screens/PracticeScreen.tsx: the state of one lesson *)

\* recordings[i] of an item without an entry, or after Retry: no uri, not
\* sent (currentRecording?.uri and currentRecording?.sent are falsy).
NoRecording == [uri |-> FALSE, sent |-> FALSE]

\* The route parameters of Results while the lesson is not completed.
NoResults == [totalItems |-> NullInt, correctItems |-> NullInt]

\* useState initial values of PracticeScreen.  recordings has an entry for
\* every item of the lesson, NoRecording standing for none; recorderUri is whether
\* audioRecorder.uri is set, isRecording is recorderState.isRecording,
\* pending holds the closures of the handlers suspended at an await,
\* results what navigation.replace('Results', ...) was called with.
InitialPractice ==
    [currentIndex |-> 0, correctItems |-> 0,
     hasRecording |-> FALSE, hasSentRecording |-> FALSE,
     recordings |-> [i \in 0 .. MaxItems - 1 |-> NoRecording],
     isRecording |-> FALSE, recorderUri |-> FALSE,
     pending |-> << >>, results |-> NoResults]

---------------------------------------------------------------------------
(* Time as SQLite writes it *)

\* Points of the day the clock is read at (two fixed HH:MM:SS values, the
\* smaller one earlier), and the window of the 7-day queries in days.
Slots == {0, 1}
SevenDays == 7

\* The clock when the behaviour starts; a day is the number of its date, a
\* fixed-width YYYY-MM-DD text whose order is the order of the numbers.
StartTime == [day |-> SevenDays, tod |-> 0]

\* Character codes of the separators 'T' and ' ' between date and time.
SepT == 84
SepSpace == 32

\* strftime('%Y-%m-%dT%H:%M:%fZ', 'now') at time t: date, 'T', time.
IsoNow(t) == <<t.day, SepT, t.tod>>

\* datetime('now', '-7 days') at time t: date, ' ', time.
DatetimeMinus7(t) == <<t.day - SevenDays, SepSpace, t.tod>>

\* substr(created_at, 1, 10): the date part of a stored text.
Substr10(text) == text[1]

\* s >= t for two texts of the same layout, compared as SQLite compares
\* TEXT: left to right, the first differing part decides.
TextGeq(s, t) ==
    \/ s[1] > t[1]
    \/ s[1] = t[1] /\ s[2] > t[2]
    \/ s[1] = t[1] /\ s[2] = t[2] /\ s[3] >= t[3]

---------------------------------------------------------------------------
(* Reference data of schema.ts *)

CANON_LETTERS ==
    << "Alif", "Ba", "Ta", "Tha", "Jeem", "Hha", "Kha", "Dal", "Dhal", "Raa",
       "Zaa", "Seen", "Sheen", "Saud", "Duad", "Tua", "Zua", "Ain", "Ghain",
       "Faa", "Qaf", "Kaif", "Laam", "Meem", "Noon", "Haa", "Waw", "Yaa" >>

\* Row inserted by stmt.executeSync([i, ar, null, i]) for the i-th letter
\* (i counted from 0 as in forEach).
LetterRow(i) ==
    [id |-> i, ar |-> CANON_LETTERS[i + 1], en |-> Null, order_index |-> i]

\* The rows of the INSERT INTO levels statement; min_accuracy in percent.
SEED_LEVELS ==
    { [level |-> 1, min_accuracy |-> 50, min_attempts |-> 20],
      [level |-> 2, min_accuracy |-> 65, min_attempts |-> 50],
      [level |-> 3, min_accuracy |-> 75, min_attempts |-> 100],
      [level |-> 4, min_accuracy |-> 85, min_attempts |-> 200],
      [level |-> 5, min_accuracy |-> 92, min_attempts |-> 350] }

\* The statements of MIGRATIONS[0].sql that change the database, in order.
\* (PRAGMA foreign_keys inside a transaction is a no-op and the indexes hold
\* no data of their own.)
MIGRATION_1_SQL ==
    << "create _meta", "delete _meta", "insert _meta 0", "create users",
       "create letters", "create attempts", "create levels",
       "create user_levels" >>

MIGRATIONS == << [id |-> 1, sql |-> MIGRATION_1_SQL, post |-> TRUE] >>

\* Highest migration id.
LatestId == MIGRATIONS[Len(MIGRATIONS)].id

\* A database file that does not exist yet.
EmptyDb ==
    [ tables      |-> {},
      meta        |-> << >>,
      users       |-> {},
      letters     |-> {},
      attempts    |-> << >>,
      levels      |-> {},
      user_levels |-> {} ]

---------------------------------------------------------------------------
(* SQL statements of the migration *)

\* One statement of a migration script applied to database d.
ExecStmt(stmt, d) ==
    CASE stmt = "create _meta"        -> [d EXCEPT !.tables = @ \cup {"_meta"}]
      [] stmt = "delete _meta"        -> [d EXCEPT !.meta = << >>]
      [] stmt = "insert _meta 0"      -> [d EXCEPT !.meta = Append(@, 0)]
      [] stmt = "create users"        -> [d EXCEPT !.tables = @ \cup {"users"}]
      [] stmt = "create letters"      -> [d EXCEPT !.tables = @ \cup {"letters"}]
      [] stmt = "create attempts"     -> [d EXCEPT !.tables = @ \cup {"attempts"}]
      [] stmt = "create levels"       -> [d EXCEPT !.tables = @ \cup {"levels"}]
      [] stmt = "create user_levels"  -> [d EXCEPT !.tables = @ \cup {"user_levels"}]

\* The first n statements of script applied in order (db.execSync(m.sql)
\* stops at the first statement that fails).
RECURSIVE ExecPrefix(_, _, _)
ExecPrefix(script, n, d) ==
    IF n = 0 THEN d
    ELSE ExecStmt(script[n], ExecPrefix(script, n - 1, d))

\* UPDATE _meta SET version = ?  (no WHERE clause: every row).
SetVersion(d, v) == [d EXCEPT !.meta = [k \in DOMAIN @ |-> v]]

\* SELECT version FROM _meta LIMIT 1, then `?.version ?? 0`.
ReadVersion(d) == IF d.meta = << >> THEN 0 ELSE d.meta[1]

\* What a reader outside the open transaction sees.
Committed == IF inTx THEN snap ELSE db

---------------------------------------------------------------------------
(* runMigrations() *)

NoCall ==
    [ calls    |-> 0,        \* runMigrations() calls started so far
      startVer |-> 0,        \* stored version when the call read `cur`
      startDb  |-> EmptyDb,  \* database right after the version was read
      okBefore |-> FALSE,    \* an earlier call that migrated returned normally
      began    |-> << >>,    \* ids for which BEGIN was executed, in order
      applied  |-> << >>,    \* ids whose transaction committed, in order
      seeded   |-> << >>,    \* ids whose post() was entered, in order
      sqlRuns  |-> 0,        \* executions of a migration script
      txn      |-> 0,        \* transactions begun
      sqlTx    |-> 0,        \* transaction number of the latest script run
      updTx    |-> 0,        \* transaction number of the latest marker update
      txStart  |-> EmptyDb,  \* database when the latest BEGIN was executed
      failedAt |-> "none" ]  \* the step that threw, if one did

\* Lines 102-115: enable foreign keys, make sure _meta holds a row, read cur.
MigStart ==
    /\ mpc = "idle"
    /\ h.calls < MaxCalls
    /\ LET d1 == [db EXCEPT !.tables = @ \cup {"_meta"}]
           d2 == IF d1.meta = << >> THEN [d1 EXCEPT !.meta = <<0>>] ELSE d1
       IN /\ db' = d2
          /\ cur' = ReadVersion(d2)
          /\ h' = [NoCall EXCEPT !.startVer = ReadVersion(d2),
                                 !.startDb  = d2,
                                 !.okBefore = (h.okBefore \/
                                               (outcome = "ok" /\ h.applied # << >>)),
                                 !.calls    = h.calls + 1,
                                 !.txn      = h.txn]
    /\ fkOn' = TRUE
    /\ mi' = 1
    /\ mpc' = "loop"
    /\ outcome' = "running"
    /\ UNCHANGED <<ps, snap, inTx, si, userVars, last, envVars, store, tourVars>>

\* MigLoop with the version test off by one (m.id >= cur): a migration that
\* is already applied is applied again.
MigLoop_Reapply ==
    /\ mpc = "loop"
    /\ IF mi > Len(MIGRATIONS)
       THEN /\ mpc' = "idle"
            /\ outcome' = "ok"
            /\ UNCHANGED <<ps, snap, inTx, mi, h>>
       ELSE IF MIGRATIONS[mi].id >= cur
       THEN /\ snap' = db
            /\ inTx' = TRUE
            /\ mpc' = "sql"
            /\ h' = [h EXCEPT !.began = Append(@, MIGRATIONS[mi].id),
                              !.txn = @ + 1,
                              !.txStart = db]
            /\ UNCHANGED <<ps, mi, outcome>>
       ELSE /\ mi' = mi + 1
            /\ UNCHANGED <<ps, snap, inTx, mpc, outcome, h>>
    /\ UNCHANGED <<ps, db, fkOn, cur, si, userVars, last, envVars, store, tourVars>>

\* Line 118-119 and the end of the loop: skip a migration that is not newer
\* than cur, BEGIN a transaction for one that is, return after the last.
MigLoop ==
    /\ mpc = "loop"
    /\ IF mi > Len(MIGRATIONS)
       THEN /\ mpc' = "idle"
            /\ outcome' = "ok"
            /\ UNCHANGED <<ps, snap, inTx, mi, h>>
       ELSE IF MIGRATIONS[mi].id > cur
       THEN /\ snap' = db
            /\ inTx' = TRUE
            /\ mpc' = "sql"
            /\ h' = [h EXCEPT !.began = Append(@, MIGRATIONS[mi].id),
                              !.txn = @ + 1,
                              !.txStart = db]
            /\ UNCHANGED <<ps, mi, outcome>>
       ELSE /\ mi' = mi + 1
            /\ UNCHANGED <<ps, snap, inTx, mpc, outcome, h>>
    /\ UNCHANGED <<ps, db, fkOn, cur, si, userVars, last, envVars, store, tourVars>>

\* Line 121, db.execSync(m.sql): every statement runs.
MigSqlOk ==
    /\ mpc = "sql"
    /\ db' = ExecPrefix(MIGRATIONS[mi].sql, Len(MIGRATIONS[mi].sql), db)
    /\ h' = [h EXCEPT !.sqlRuns = @ + 1, !.sqlTx = h.txn]
    /\ mpc' = "update"
    /\ UNCHANGED <<ps, snap, inTx, fkOn, cur, mi, si, outcome, userVars, last, envVars, store, tourVars>>

\* Line 121 throws after the first n statements of the script ran.
MigSqlFail ==
    /\ mpc = "sql"
    /\ \E n \in 0 .. Len(MIGRATIONS[mi].sql) - 1 :
           db' = ExecPrefix(MIGRATIONS[mi].sql, n, db)
    /\ h' = [h EXCEPT !.sqlRuns = @ + 1, !.sqlTx = h.txn, !.failedAt = "sql"]
    /\ mpc' = "catch"
    /\ UNCHANGED <<ps, snap, inTx, fkOn, cur, mi, si, outcome, userVars, last, envVars, store, tourVars>>

\* MigUpdateOk with the marker update left out of the transaction.
MigUpdateOk_NoWrite ==
    /\ mpc = "update"
    /\ h' = [h EXCEPT !.updTx = h.txn]
    /\ mpc' = "commit"
    /\ UNCHANGED <<ps, db, snap, inTx, fkOn, cur, mi, si, outcome, userVars, last, envVars, store, tourVars>>

\* Lines 122-124: UPDATE _meta SET version = m.id.
MigUpdateOk ==
    /\ mpc = "update"
    /\ db' = SetVersion(db, MIGRATIONS[mi].id)
    /\ h' = [h EXCEPT !.updTx = h.txn]
    /\ mpc' = "commit"
    /\ UNCHANGED <<ps, snap, inTx, fkOn, cur, mi, si, outcome, userVars, last, envVars, store, tourVars>>

\* Lines 122-124 throw: the marker is not written.
MigUpdateFail ==
    /\ mpc = "update"
    /\ h' = [h EXCEPT !.failedAt = "update"]
    /\ mpc' = "catch"
    /\ UNCHANGED <<ps, db, snap, inTx, fkOn, cur, mi, si, outcome, userVars, last, envVars, store, tourVars>>

\* Line 125: COMMIT.
MigCommitOk ==
    /\ mpc = "commit"
    /\ inTx' = FALSE
    /\ h' = [h EXCEPT !.applied = Append(@, MIGRATIONS[mi].id)]
    /\ mpc' = "post"
    /\ UNCHANGED <<ps, db, snap, fkOn, cur, mi, si, outcome, userVars, last, envVars, store, tourVars>>

\* Line 125 throws: the transaction stays open.
MigCommitFail ==
    /\ mpc = "commit"
    /\ h' = [h EXCEPT !.failedAt = "commit"]
    /\ mpc' = "catch"
    /\ UNCHANGED <<ps, db, snap, inTx, fkOn, cur, mi, si, outcome, userVars, last, envVars, store, tourVars>>

\* Line 126 with lines 78-79: m.post?.() is entered and counts the letters.
MigPost ==
    /\ mpc = "post"
    /\ h' = [h EXCEPT !.seeded = Append(@, MIGRATIONS[mi].id)]
    /\ IF MIGRATIONS[mi].post /\ db.letters = {}
       THEN mpc' = "seedLetters" /\ si' = 0
       ELSE mpc' = "seedLevels" /\ si' = si
    /\ UNCHANGED <<ps, db, snap, inTx, fkOn, cur, mi, outcome, userVars, last, envVars, store, tourVars>>

\* Lines 81-84: one turn of CANON_LETTERS.forEach, each INSERT its own
\* implicit transaction; after the last letter post() goes on to the levels.
MigSeedLetterOk ==
    /\ mpc = "seedLetters"
    /\ IF si < Len(CANON_LETTERS)
       THEN /\ db' = [db EXCEPT !.letters = @ \cup {LetterRow(si)}]
            /\ si' = si + 1
            /\ mpc' = mpc
       ELSE /\ mpc' = "seedLevels"
            /\ UNCHANGED <<ps, db, si>>
    /\ UNCHANGED <<ps, snap, inTx, fkOn, cur, mi, outcome, h, userVars, last, envVars, store, tourVars>>

\* Line 82 throws for letter si: the letters before it stay inserted.
MigSeedLetterFail ==
    /\ mpc = "seedLetters"
    /\ si < Len(CANON_LETTERS)
    /\ h' = [h EXCEPT !.failedAt = "seed"]
    /\ mpc' = "catch"
    /\ UNCHANGED <<ps, db, snap, inTx, fkOn, cur, mi, si, outcome, userVars, last, envVars, store, tourVars>>

\* Lines 86-96 and line 127: seed the thresholds when the table is empty,
\* then post() returns, cur = m.id and the loop goes to the next migration.
MigSeedLevelsOk ==
    /\ mpc = "seedLevels"
    /\ db' = IF MIGRATIONS[mi].post /\ db.levels = {}
             THEN [db EXCEPT !.levels = SEED_LEVELS]
             ELSE db
    /\ cur' = MIGRATIONS[mi].id
    /\ mi' = mi + 1
    /\ mpc' = "loop"
    /\ UNCHANGED <<ps, snap, inTx, fkOn, si, outcome, h, userVars, last, envVars, store, tourVars>>

\* Lines 88-95 throw: no threshold row is inserted.
MigSeedLevelsFail ==
    /\ mpc = "seedLevels"
    /\ MIGRATIONS[mi].post /\ db.levels = {}
    /\ h' = [h EXCEPT !.failedAt = "seed"]
    /\ mpc' = "catch"
    /\ UNCHANGED <<ps, db, snap, inTx, fkOn, cur, mi, si, outcome, userVars, last, envVars, store, tourVars>>

\* MigCatch without the ROLLBACK: the half-applied transaction is kept.
MigCatch_NoRollback ==
    /\ mpc = "catch"
    /\ inTx' = FALSE
    /\ mpc' = "idle"
    /\ outcome' = "error"
    /\ UNCHANGED <<ps, db, snap, fkOn, cur, mi, si, h, userVars, last, envVars, store, tourVars>>

\* Lines 128-131: ROLLBACK, then rethrow.  With a transaction open the
\* database returns to its contents at BEGIN; after COMMIT there is nothing
\* to roll back (the ROLLBACK itself throws) and the database stays as is.
MigCatch ==
    /\ mpc = "catch"
    /\ db' = IF inTx THEN snap ELSE db
    /\ inTx' = FALSE
    /\ mpc' = "idle"
    /\ outcome' = "error"
    /\ UNCHANGED <<ps, snap, fkOn, cur, mi, si, h, userVars, last, envVars, store, tourVars>>

MigNext ==
    \/ MigStart
    \/ MigLoop
    \/ MigSqlOk
    \/ MigSqlFail
    \/ MigUpdateOk
    \/ MigUpdateFail
    \/ MigCommitOk
    \/ MigCommitFail
    \/ MigPost
    \/ MigSeedLetterOk
    \/ MigSeedLetterFail
    \/ MigSeedLevelsOk
    \/ MigSeedLevelsFail
    \/ MigCatch

\* A device on which the app has never run.
MigInit ==
    /\ db = EmptyDb
    /\ snap = EmptyDb
    /\ inTx = FALSE
    /\ fkOn = FALSE
    /\ mpc = "idle"
    /\ cur = 0
    /\ mi = 1
    /\ si = 0
    /\ outcome = "none"
    /\ h = NoCall
    /\ kv = NullInt
    /\ eu = [c \in Callers |-> IdleFrame]
    /\ nextId = 0
    /\ last = NoCallYet
    /\ now = StartTime
    /\ atStart = 0
    /\ store = EmptyStore
    /\ TourAtRest
    /\ ps = InitialPractice

MigSpec == MigInit /\ [][MigNext]_vars

---------------------------------------------------------------------------
(* The database a first, undisturbed runMigrations() leaves behind *)

MigratedDb ==
    LET script == MIGRATIONS[1].sql
        d0 == [EmptyDb EXCEPT !.tables = {"_meta"}, !.meta = <<0>>]
        d1 == SetVersion(ExecPrefix(script, Len(script), d0), MIGRATIONS[1].id)
    IN [d1 EXCEPT !.letters = { LetterRow(i) : i \in 0 .. Len(CANON_LETTERS) - 1 },
                  !.levels  = SEED_LEVELS]

---------------------------------------------------------------------------
(* services/user.ts: ensureLocalUser() *)

\* nanoid(): an id no earlier call produced.
Nanoid == nextId + 1

\* ensureLocalUser() is called: AsyncStorage.getItem(KEY) is issued and the
\* function is suspended at its first await (line 18).
EuCall(c) ==
    /\ mpc = "idle"
    /\ eu[c].pc = "idle"
    /\ eu' = [eu EXCEPT ![c] = [pc |-> "getItem", id |-> NullInt, ret |-> eu[c].ret]]
    /\ UNCHANGED <<ps, db, migVars, kv, nextId, last, envVars, store, tourVars>>

\* getItem resolves with the stored value and the function runs on to its
\* next suspension: return the existing id (line 19), or make a new id,
\* insert the users row and issue setItem (lines 21-23).
EuResume(c) ==
    /\ mpc = "idle"
    /\ eu[c].pc = "getItem"
    /\ IF kv # NullInt
       THEN /\ eu' = [eu EXCEPT ![c] = [pc |-> "idle", id |-> NullInt, ret |-> kv]]
            /\ UNCHANGED <<ps, db, nextId>>
       ELSE /\ nextId' = Nanoid
            /\ db' = [db EXCEPT !.users =
                          @ \cup {[id |-> Nanoid, display_name |-> "Local User"]}]
            /\ eu' = [eu EXCEPT ![c] = [pc |-> "setItem", id |-> Nanoid, ret |-> eu[c].ret]]
    /\ UNCHANGED <<ps, migVars, kv, last, envVars, store, tourVars>>

\* setItem(KEY, id) completes and the call returns id (lines 23-24).
EuSetItem(c) ==
    /\ mpc = "idle"
    /\ eu[c].pc = "setItem"
    /\ kv' = eu[c].id
    /\ eu' = [eu EXCEPT ![c] = [pc |-> "idle", id |-> NullInt, ret |-> eu[c].id]]
    /\ UNCHANGED <<ps, db, migVars, nextId, last, envVars, store, tourVars>>

---------------------------------------------------------------------------
(* services/data.ts: recordAttempt() *)

\* Value standing for `throw new Error("Unknown letter: " + ar)`.
UnknownLetter == -2

\* Error raised by SQLite when a foreign key of the inserted row dangles.
FkViolation == "FOREIGN KEY constraint failed"

\* letterIdByAr without its `if (!row) throw`: an unknown label gives null.
LetterIdByAr_NoThrow(d, ar) ==
    IF \E r \in d.letters : r.ar = ar
    THEN (CHOOSE r \in d.letters : r.ar = ar).id
    ELSE NullInt

\* letterIdByAr(ar): the id of the row with that label (ar is UNIQUE), or
\* the thrown error.
LetterIdByAr(d, ar) ==
    IF \E r \in d.letters : r.ar = ar
    THEN (CHOOSE r \in d.letters : r.ar = ar).id
    ELSE UnknownLetter

\* JavaScript truthiness of an optional string (line 36).
Truthy(str) == str # Null /\ str # ""

\* The INSERT binding 1 whatever a.correct is.
CorrectFlag_AlwaysOne(c) == 1

\* a.correct ? 1 : 0 (line 45).
CorrectFlag(c) == IF c THEN 1 ELSE 0

\* A schema without the FOREIGN KEY clauses.
FkOk_Unchecked(d, row) == TRUE

\* The FOREIGN KEY clauses of the attempts table (schema.ts lines 54-56).
FkOk(d, row) ==
    /\ row.user_id \in { u.id : u \in d.users }
    /\ row.target_letter_id \in { l.id : l \in d.letters }
    /\ \/ row.predicted_letter_id = NullInt
       \/ row.predicted_letter_id \in { l.id : l \in d.letters }

\* The INSERT with targetId bound to both letter columns.
AttemptRow_TargetTwice(d, a, targetId, predId) ==
    [ id                  |-> Len(d.attempts) + 1,
      user_id             |-> a.userId,
      target_letter_id    |-> targetId,
      predicted_letter_id |-> targetId,
      correct             |-> IF a.correct THEN 1 ELSE 0,
      created_at          |-> IsoNow(now) ]

\* The row of the INSERT (lines 38-49); id is the AUTOINCREMENT rowid (no
\* attempts row is ever deleted by the code); created_at is the column
\* default.  confidence, duration_ms and audio_uri are stored as given and
\* decide nothing in the queries modelled here.
AttemptRow(d, a, targetId, predId) ==
    [ id                  |-> Len(d.attempts) + 1,
      user_id             |-> a.userId,
      target_letter_id    |-> targetId,
      predicted_letter_id |-> predId,
      correct             |-> CorrectFlag(a.correct),
      created_at          |-> IsoNow(now) ]

\* What recordAttempt(a) does to database d: <<result, database after>>.
RecordAttemptOn(d, a) ==
    LET targetId == LetterIdByAr(d, a.targetLetterAr) IN
    IF targetId = UnknownLetter THEN <<"Unknown letter", d>>
    ELSE
    LET predId == IF Truthy(a.predictedLetterAr)
                  THEN LetterIdByAr(d, a.predictedLetterAr)
                  ELSE NullInt IN
    IF predId = UnknownLetter THEN <<"Unknown letter", d>>
    ELSE
    LET row == AttemptRow(d, a, targetId, predId) IN
    IF row.target_letter_id = NullInt \/ row.correct = NullInt
    THEN <<"NOT NULL constraint failed", d>>
    ELSE IF fkOn /\ ~FkOk(d, row) THEN <<FkViolation, d>>
    ELSE <<"ok", [d EXCEPT !.attempts = Append(@, row)]>>

\* Every id nanoid() can have produced: a caller has at most one call in
\* flight, and a call that finds an id stored makes none.
UserIds == 1 .. Cardinality(Callers)

\* Inputs of recordAttempt() that exercise the label resolution: two catalog
\* letters and a label outside the catalog as target; an absent, an empty, a
\* catalog and a foreign predicted label; the first local user.
TargetLabels == {CANON_LETTERS[1], CANON_LETTERS[2], "Hamza"}
PredictedLabels == {Null, "", CANON_LETTERS[2], "Hamza"}

LabelInputs ==
    [ userId            : {1},
      targetLetterAr    : TargetLabels,
      predictedLetterAr : PredictedLabels,
      correct           : BOOLEAN ]

\* Inputs of recordAttempt() that exercise users and statistics: every user
\* id, two catalog letters, no predicted letter.
StatInputs ==
    [ userId            : UserIds,
      targetLetterAr    : {CANON_LETTERS[1], CANON_LETTERS[2]},
      predictedLetterAr : {Null},
      correct           : BOOLEAN ]

\* recordAttempt(a) (lines 34-50).
RecordAttempt(a) ==
    /\ mpc = "idle"
    /\ Len(db.attempts) < atStart + MaxAttempts
    /\ LET r == RecordAttemptOn(db, a)
       IN /\ db' = r[2]
          /\ last' = [op |-> "recordAttempt", a |-> a, result |-> r[1],
                      value |-> NullInt, prev |-> NullInt]
    /\ UNCHANGED <<ps, migVars, userVars, envVars, store, tourVars>>

---------------------------------------------------------------------------
(* services/data.ts: per-letter statistics and totals *)

\* An accuracy correct/n as a fraction in lowest terms.
RECURSIVE Gcd(_, _)
Gcd(a, b) == IF b = 0 THEN a ELSE Gcd(b, a % b)

Ratio(c, n) == [num |-> c \div Gcd(c, n), den |-> n \div Gcd(c, n)]

Zero == [num |-> 0, den |-> 1]

\* x ?? 0
OrZero(x) == IF x = NullInt THEN 0 ELSE x

\* The correct values of the rows with lo <= id <= hi, added up.
RECURSIVE SumBetween(_, _, _)
SumBetween(rows, lo, hi) ==
    IF lo > hi THEN 0
    ELSE IF lo = hi
         THEN IF \E r \in rows : r.id = lo
              THEN (CHOOSE r \in rows : r.id = lo).correct
              ELSE 0
         ELSE SumBetween(rows, lo, (lo + hi) \div 2)
              + SumBetween(rows, (lo + hi) \div 2 + 1, hi)

\* SUM(correct) over a set of attempts rows: NULL when there is no row.
SumCorrect(rows) ==
    IF rows = {} THEN NullInt
    ELSE SumBetween(rows, 1,
                    CHOOSE m \in { r.id : r \in rows } :
                        \A r \in rows : r.id <= m)

AttemptRows(d) == { d.attempts[k] : k \in DOMAIN d.attempts }

\* Row r put into the sequence sorted of rows in ascending order_index,
\* before the first row with a larger order_index.
InsertByOrderIndex(r, sorted) ==
    LET before == { k \in 1 .. Len(sorted) :
                      sorted[k].order_index <= r.order_index }
        n == Cardinality(before)
    IN [k \in 1 .. Len(sorted) + 1 |->
            IF k <= n THEN sorted[k]
            ELSE IF k = n + 1 THEN r ELSE sorted[k - 1]]

\* ORDER BY l.order_index: the letters rows as a sequence.
RECURSIVE ByOrderIndex(_)
ByOrderIndex(rows) ==
    IF rows = {} THEN << >>
    ELSE LET r == CHOOSE x \in rows : TRUE
         IN InsertByOrderIndex(r, ByOrderIndex(rows \ {r}))

\* One output row of getPerLetterStats for letter l joined with `matched`.
PerLetterRow(l, matched) ==
    LET n       == Cardinality(matched)
        correct == SumCorrect(matched)
        acc     == IF n = 0 THEN Zero ELSE Ratio(correct, n)
    IN [ar |-> l.ar, n |-> OrZero(n), correct |-> OrZero(correct), acc |-> acc]

\* getPerLetterStats with `AND a.user_id = ?` missing from the join.
GetPerLetterStats_AnyUser(d, userId) ==
    LET Matched(l) == { a \in AttemptRows(d) : a.target_letter_id = l.id }
        ordered    == ByOrderIndex(d.letters)
    IN [k \in 1 .. Len(ordered) |-> PerLetterRow(ordered[k], Matched(ordered[k]))]

\* getPerLetterStats(userId) (lines 54-75): letters LEFT JOIN the user's
\* attempts on the target letter, grouped by letter, in order_index order.
GetPerLetterStats(d, userId) ==
    LET Matched(l) == { a \in AttemptRows(d) :
                          a.target_letter_id = l.id /\ a.user_id = userId }
        ordered    == ByOrderIndex(d.letters)
    IN [k \in 1 .. Len(ordered) |-> PerLetterRow(ordered[k], Matched(ordered[k]))]

\* getTotals with COUNT(*) taken over the attempts of every user.
GetTotals_CountAll(d, userId) ==
    LET mine    == { a \in AttemptRows(d) : a.user_id = userId }
        n       == OrZero(Cardinality(AttemptRows(d)))
        correct == OrZero(SumCorrect(mine))
    IN [n |-> n, correct |-> correct,
        acc |-> IF n # 0 THEN Ratio(correct, n) ELSE Zero]

\* getTotals(userId) (lines 77-85).
GetTotals(d, userId) ==
    LET mine    == { a \in AttemptRows(d) : a.user_id = userId }
        n       == OrZero(Cardinality(mine))
        correct == OrZero(SumCorrect(mine))
    IN [n |-> n, correct |-> correct,
        acc |-> IF n # 0 THEN Ratio(correct, n) ELSE Zero]

---------------------------------------------------------------------------
(* services/data.ts: the 7-day series and the recent attempts *)

\* The elements of a set of numbers as an ascending sequence.
RECURSIVE Ascending(_)
Ascending(S) ==
    IF S = {} THEN << >>
    ELSE LET m == CHOOSE x \in S : \A y \in S : x <= y
         IN <<m>> \o Ascending(S \ {m})

\* GROUP BY day ORDER BY day ASC over the selected rows: one output row per
\* date with COUNT(*) and SUM(correct) / COUNT(*).
DayBuckets(rows) ==
    LET days == Ascending({ Substr10(a.created_at) : a \in rows })
    IN [k \in 1 .. Len(days) |->
          LET mine == { a \in rows : Substr10(a.created_at) = days[k] }
          IN [ day |-> days[k],
               n   |-> Cardinality(mine),
               acc |-> Ratio(OrZero(SumCorrect(mine)), Cardinality(mine)) ]]

\* getLast7Days without the condition on created_at.
GetLast7Days_NoWindow(d, userId, t) ==
    DayBuckets({ a \in AttemptRows(d) : a.user_id = userId })

\* getLast7Days(userId) (lines 87-101), the clock reading t.
GetLast7Days(d, userId, t) ==
    DayBuckets({ a \in AttemptRows(d) :
                   /\ a.user_id = userId
                   /\ TextGeq(a.created_at, DatetimeMinus7(t)) })

\* getLast7DaysForLetters joining the predicted letter.
GetLast7DaysForLetters_ByPredicted(d, userId, letterNames, t) ==
    IF letterNames = {} THEN << >>
    ELSE DayBuckets({ a \in AttemptRows(d) :
                        /\ a.user_id = userId
                        /\ TextGeq(a.created_at, DatetimeMinus7(t))
                        /\ \E l \in d.letters :
                               l.id = a.predicted_letter_id /\ l.ar \in letterNames })

\* getLast7DaysForLetters(userId, letterNames) (lines 103-120).
GetLast7DaysForLetters(d, userId, letterNames, t) ==
    IF letterNames = {} THEN << >>
    ELSE DayBuckets({ a \in AttemptRows(d) :
                        /\ a.user_id = userId
                        /\ TextGeq(a.created_at, DatetimeMinus7(t))
                        /\ \E l \in d.letters :
                               l.id = a.target_letter_id /\ l.ar \in letterNames })

\* One output row of getRecentAttempts for attempts row a: JOIN letters lt,
\* LEFT JOIN letters lp (lines 131-136).
RecentRow(d, a) ==
    [ created_at   |-> a.created_at,
      correct      |-> a.correct,
      target_ar    |-> (CHOOSE l \in d.letters : l.id = a.target_letter_id).ar,
      predicted_ar |-> IF \E l \in d.letters : l.id = a.predicted_letter_id
                       THEN (CHOOSE l \in d.letters :
                                l.id = a.predicted_letter_id).ar
                       ELSE Null ]

\* getRecentAttempts without `WHERE a.user_id = ?`.
RecentOrders_AnyUser(d, userId, limit) ==
    LET mine == { k \in DOMAIN d.attempts :
                    \E l \in d.letters : l.id = d.attempts[k].target_letter_id }
        m == IF limit < 0 \/ limit > Cardinality(mine)
             THEN Cardinality(mine) ELSE limit
    IN { q \in [1 .. m -> mine] :
           /\ \A i, j \in 1 .. m : i # j => q[i] # q[j]
           /\ \A i \in 1 .. m : \A k \in mine :
                 (\A j \in 1 .. i : q[j] # k)
                 => TextGeq(d.attempts[q[i]].created_at, d.attempts[k].created_at) }

\* The ids of the attempts rows getRecentAttempts(userId, limit) selects,
\* in output order (lines 134-139): the user's rows that join a target
\* letter, ORDER BY created_at DESC, LIMIT ? (a negative limit is none).
\* Rows with equal created_at come in an order SQL leaves open: every
\* order the query may produce is in the set.
RecentOrders(d, userId, limit) ==
    LET mine == { k \in DOMAIN d.attempts :
                    /\ d.attempts[k].user_id = userId
                    /\ \E l \in d.letters : l.id = d.attempts[k].target_letter_id }
        m == IF limit < 0 \/ limit > Cardinality(mine)
             THEN Cardinality(mine) ELSE limit
    IN { q \in [1 .. m -> mine] :
           /\ \A i, j \in 1 .. m : i # j => q[i] # q[j]
           /\ \A i \in 1 .. m : \A k \in mine :
                 (\A j \in 1 .. i : q[j] # k)
                 => TextGeq(d.attempts[q[i]].created_at, d.attempts[k].created_at) }

\* getRecentAttempts(userId, limit) (lines 122-142): the results possible.
GetRecentAttempts(d, userId, limit) ==
    { [i \in DOMAIN q |-> RecentRow(d, d.attempts[q[i]])] :
        q \in RecentOrders(d, userId, limit) }

\* The clock moves on: to the next point of the same day, or by a week to
\* any point of that day.
Tick ==
    /\ mpc = "idle"
    /\ \/ /\ now.tod + 1 \in Slots
          /\ now' = [now EXCEPT !.tod = @ + 1]
       \/ /\ now.day + SevenDays <= StartTime.day + MaxWeeks * SevenDays
          /\ \E t \in Slots : now' = [day |-> now.day + SevenDays, tod |-> t]
    /\ UNCHANGED <<ps, db, migVars, userVars, last, atStart, store, tourVars>>

\* The clock moves on to a point of the next day.
TickDay ==
    /\ mpc = "idle"
    /\ now.day < StartTime.day + SevenDays - 1 + MaxDays
    /\ \E t \in Slots : now' = [day |-> now.day + 1, tod |-> t]
    /\ UNCHANGED <<ps, db, migVars, userVars, last, atStart, store, tourVars>>

\* A screen reads the 7-day series and the recent attempts of a user
\* (AnalyticsScreen.refresh): reads of the database only.
ReadHistory(u) ==
    /\ mpc = "idle"
    /\ last' = [op |-> "readHistory", a |-> [NoAttempt EXCEPT !.userId = u],
                result |-> "ok", value |-> NullInt, prev |-> NullInt]
    /\ UNCHANGED <<ps, db, migVars, userVars, envVars, store, tourVars>>

---------------------------------------------------------------------------
(* services/data.ts: level promotion *)

\* acc >= min_accuracy, the threshold being a whole percent.
AccGeq(acc, pct) == acc.num * 100 >= pct * acc.den

\* The loop of lines 150-153 over the rows not yet visited, in ascending
\* level order: every row whose two thresholds are met overwrites best.
RECURSIVE BestLevel(_, _, _, _)
BestLevel(rows, n, acc, best) ==
    IF rows = {} THEN best
    ELSE LET L == CHOOSE r \in rows : \A o \in rows : r.level <= o.level
         IN BestLevel(rows \ {L}, n, acc,
                      IF n >= L.min_attempts /\ AccGeq(acc, L.min_accuracy)
                      THEN L.level ELSE best)

\* The FOREIGN KEY clauses of user_levels (schema.ts lines 73-74).
UserLevelFkOk(d, row) ==
    /\ row.user_id \in { u.id : u \in d.users }
    /\ row.level \in { l.level : l \in d.levels }

\* An INSERT without the ON CONFLICT clause on a table without the key.
UpsertUserLevel_InsertOnly(d, row) ==
    [d EXCEPT !.user_levels = @ \cup {row}]

\* INSERT ... ON CONFLICT(user_id) DO UPDATE (lines 155-161): the row of
\* the user is replaced, level and updated_at both.
UpsertUserLevel(d, row) ==
    [d EXCEPT !.user_levels = { r \in @ : r.user_id # row.user_id } \cup {row}]

\* getCurrentLevel(userId) (lines 168-174), `v?.level ?? 1`.
GetCurrentLevel(d, userId) ==
    IF \E r \in d.user_levels : r.user_id = userId
    THEN (CHOOSE r \in d.user_levels : r.user_id = userId).level
    ELSE 1

\* computeAndUpdateLevel that never stores less than the stored level.
ComputeAndUpdateLevelOn_NeverDemote(d, userId) ==
    LET t    == GetTotals(d, userId)
        calc == BestLevel(d.levels, t.n, t.acc, 1)
        old  == GetCurrentLevel(d, userId)
        best == IF old > calc THEN old ELSE calc
        row  == [user_id |-> userId, level |-> best, updated_at |-> IsoNow(now)]
    IN IF fkOn /\ ~UserLevelFkOk(d, row)
       THEN <<FkViolation, NullInt, d>>
       ELSE <<"ok", best, UpsertUserLevel(d, row)>>

\* What computeAndUpdateLevel(userId) does to database d (lines 144-166):
\* <<result, level returned, database after>>.
ComputeAndUpdateLevelOn(d, userId) ==
    LET t    == GetTotals(d, userId)
        best == BestLevel(d.levels, t.n, t.acc, 1)
        row  == [user_id |-> userId, level |-> best, updated_at |-> IsoNow(now)]
    IN IF fkOn /\ ~UserLevelFkOk(d, row)
       THEN <<FkViolation, NullInt, d>>
       ELSE <<"ok", best, UpsertUserLevel(d, row)>>

\* computeAndUpdateLevel(u) (lines 144-166).
ComputeAndUpdateLevel(u) ==
    /\ mpc = "idle"
    /\ \E r \in {ComputeAndUpdateLevelOn(db, u)} :
          /\ db' = r[3]
          /\ last' = [op |-> "computeAndUpdateLevel",
                      a |-> [NoAttempt EXCEPT !.userId = u],
                      result |-> r[1], value |-> r[2],
                      prev |-> IF \E x \in db.user_levels : x.user_id = u
                               THEN GetCurrentLevel(db, u) ELSE NullInt]
    /\ UNCHANGED <<ps, migVars, userVars, envVars, store, tourVars>>

\* A screen refreshes: it reads the per-letter statistics and the totals of
\* a user (AnalyticsScreen.refresh).  Both are reads of the database; what
\* they return is GetPerLetterStats(db, u) and GetTotals(db, u).
ReadStats(u) ==
    /\ mpc = "idle"
    /\ last' = [op |-> "readStats", a |-> [NoAttempt EXCEPT !.userId = u],
                result |-> "ok", value |-> NullInt, prev |-> NullInt]
    /\ UNCHANGED <<ps, db, migVars, userVars, envVars, store, tourVars>>

\* A screen asks for the stored level of a user (getCurrentLevel).
ReadLevel(u) ==
    /\ mpc = "idle"
    /\ last' = [op |-> "getCurrentLevel", a |-> [NoAttempt EXCEPT !.userId = u],
                result |-> "ok", value |-> GetCurrentLevel(db, u),
                prev |-> NullInt]
    /\ UNCHANGED <<ps, db, migVars, userVars, envVars, store, tourVars>>

---------------------------------------------------------------------------
(* Accounts: AuthScreen.handleSubmit, ProfileScreen.handleLogout and       *)
(* ProfileScreen.handleDeleteAccount.  They work on AsyncStorage only.     *)

\* Sign in to an existing account (the password matches): currentUser
\* becomes the username stored in the users map.
SignIn(u) ==
    /\ mpc = "idle"
    /\ store.currentUser = Null
    /\ store.users[Lower(u)] # Null
    /\ store' = [store EXCEPT !.currentUser = store.users[Lower(u)]]
    /\ UNCHANGED <<ps, db, migVars, userVars, last, envVars, tourVars>>

\* handleLogout removes currentUser and nothing else.
Logout ==
    /\ mpc = "idle"
    /\ store.currentUser # Null
    /\ store' = [store EXCEPT !.currentUser = Null]
    /\ UNCHANGED <<ps, db, migVars, userVars, last, envVars, tourVars>>

\* handleDeleteAccount, with the database rows of the device's user
\* deleted as well.
DeleteAccount_WipesAttempts ==
    /\ mpc = "idle"
    /\ store.currentUser # Null
    /\ LET normalized == Lower(store.currentUser)
       IN /\ store' = [store EXCEPT !.users[normalized] = Null,
                                    !.tutorialActive[normalized] = Null,
                                    !.tutorialStep[normalized] = Null,
                                    !.currentUser = Null]
          /\ kv' = IF normalized = KEY_PREFIX THEN NullInt ELSE kv
          /\ db' = [db EXCEPT !.attempts = << >>]
    /\ UNCHANGED <<ps, migVars, eu, nextId, last, envVars, tourVars>>

\* handleDeleteAccount for the signed-in user (the username ProfileScreen
\* loaded from currentUser): the account leaves the users map, the keys
\* tutorialActive:<name> and tutorialStep:<name> are removed together with
\* every key that starts with "<name>:", and currentUser is cleared, being
\* this user's.  The key of the local user id, "qariai:user_id", starts
\* with "<name>:" for the account named qariai.  The database is not
\* touched.
DeleteAccount ==
    /\ mpc = "idle"
    /\ store.currentUser # Null
    /\ LET normalized == Lower(store.currentUser)
       IN /\ store' = [store EXCEPT !.users[normalized] = Null,
                                    !.tutorialActive[normalized] = Null,
                                    !.tutorialStep[normalized] = Null,
                                    !.currentUser = Null]
          /\ kv' = IF normalized = KEY_PREFIX THEN NullInt ELSE kv
          /\ db' = db
    /\ UNCHANGED <<ps, migVars, eu, nextId, last, envVars, tourVars>>

---------------------------------------------------------------------------
(* tutorial/TutorialContext.tsx: the guided tour *)

dataVars == <<db, migVars, userVars, envVars>>

\* `last` after a call of the tour's context; for next() and
\* markPracticeDone() prev is the position of the step they were called at.
TourCall(op) == [NoCallYet EXCEPT !.op = op]

\* `last` after a step of the rehydration effect: value is 1 while nothing
\* but the effect has called the context since the provider was mounted.
Rehydrating ==
    [TourCall("rehydrate") EXCEPT
        !.value = IF last.op \in {"restart", "rehydrate"} /\ last.value = 1
                  THEN 1 ELSE 0]

\* The tour's observation fields after a step that is neither a call of
\* next(), markPracticeDone() or setUsername() nor one of their writes.
Interrupted(t) == [t EXCEPT !.startedFor = Null]

\* The tour's observation fields when finish() returns.
Finished(t) ==
    [t EXCEPT !.finishedFor = IF t.hydrate = "idle" THEN t.startedFor ELSE Null,
              !.startedFor = Null]

\* Create an account (the name is free) and start the tour for it:
\* AuthScreen.handleSubmit writes users and currentUser and calls start(u),
\* which sets the username and suspends at its first setItem.
SignUp(u) ==
    /\ store.currentUser = Null
    /\ store.users[Lower(u)] = Null
    /\ tpc.start = "idle"
    /\ store' = [store EXCEPT !.users[Lower(u)] = u, !.currentUser = u]
    /\ tour' = [tour EXCEPT !.username = u]
    /\ tpc' = [tpc EXCEPT !.start = "setActive", !.startUser = u,
                          !.startedFor = Null, !.finishedFor = Null,
                          !.startCut = FALSE]
    /\ last' = TourCall("start")
    /\ UNCHANGED <<ps, dataVars, pend>>

\* start(), line 72: the active flag of u is written.
StartSetActive ==
    /\ tpc.start = "setActive"
    /\ store' = [store EXCEPT !.tutorialActive[Lower(tpc.startUser)] = "1"]
    /\ tpc' = [tpc EXCEPT !.start = "setStep"]
    /\ last' = TourCall("start")
    /\ UNCHANGED <<ps, dataVars, tour, pend>>

\* start() leaving the step in memory where it was.
StartSetStep_NoReset ==
    /\ tpc.start = "setStep"
    /\ store' = [store EXCEPT !.tutorialStep[Lower(tpc.startUser)] = "home"]
    /\ tour' = [tour EXCEPT !.active = TRUE]
    /\ tpc' = [tpc EXCEPT !.start = "idle", !.startUser = Null,
                          !.startedFor = tpc.startUser]
    /\ last' = TourCall("start")
    /\ UNCHANGED <<ps, dataVars, pend>>

\* start(), lines 73-75: the step of u is written as home, then the state
\* is set and start() returns.
StartSetStep ==
    /\ tpc.start = "setStep"
    /\ store' = [store EXCEPT !.tutorialStep[Lower(tpc.startUser)] = "home"]
    /\ tour' = [tour EXCEPT !.step = "home", !.active = TRUE]
    /\ tpc' = [tpc EXCEPT !.start = "idle", !.startUser = Null,
                          !.startedFor = tpc.startUser]
    /\ last' = TourCall("start")
    /\ UNCHANGED <<ps, dataVars, pend>>

\* Position of a step in the order (indexOf, counted from 1).
IndexOf(st) == CHOOSE i \in 1..Len(ORDER) : ORDER[i] = st

Min(a, b) == IF a <= b THEN a ELSE b

\* The step next() computes, staying where it is.
NextStep_Stay(st) == st

\* The step next() computes: order[Math.min(idx + 1, order.length - 1)].
NextStep(st) == ORDER[Min(IndexOf(st) + 1, Len(ORDER))]

\* persist(s) without the write.
Persist_NoWrite(s) == pend

\* persist(s): the writes in flight after the call.  Nothing is written
\* while username is null; the write is not awaited by the callers.
Persist(s) ==
    IF tour.username = Null THEN pend
    ELSE pend \cup { [key |-> Lower(tour.username), step |-> s] }

\* next(): it does not look at `active`.
next ==
    /\ Cardinality(Persist(NextStep(tour.step))) <= MaxPending
    /\ tour' = [tour EXCEPT !.step = NextStep(tour.step)]
    /\ pend' = Persist(NextStep(tour.step))
    /\ last' = [TourCall("next") EXCEPT !.prev = IndexOf(tour.step)]
    /\ UNCHANGED <<ps, dataVars, store, tpc>>

markPracticeDone ==
    /\ Cardinality(Persist("profile")) <= MaxPending
    /\ tour' = [tour EXCEPT !.step = "profile"]
    /\ pend' = Persist("profile")
    /\ last' = [TourCall("markPracticeDone") EXCEPT !.prev = IndexOf(tour.step)]
    /\ UNCHANGED <<ps, dataVars, store, tpc>>

\* A write issued by persist() is carried out.  Writes that were not
\* awaited may be carried out in any order, also after a later awaited
\* operation.
PersistDone(w) ==
    /\ w \in pend
    /\ store' = [store EXCEPT !.tutorialStep[w.key] = w.step]
    /\ pend' = pend \ {w}
    /\ last' = TourCall("persist")
    /\ UNCHANGED <<ps, dataVars, tour, tpc>>

\* setUsername of the context value.
setUsername(u) ==
    /\ tour.username # u
    /\ tour' = [tour EXCEPT !.username = u]
    /\ last' = TourCall("setUsername")
    /\ UNCHANGED <<ps, dataVars, store, pend, tpc>>

\* finish() is called: with a username it suspends at multiRemove, without
\* one it sets the state at once.
finish ==
    /\ tpc.finish = "idle"
    /\ IF tour.username # Null
       THEN /\ tpc' = [tpc EXCEPT !.finish = "remove",
                                  !.finishUser = Lower(tour.username)]
            /\ tour' = tour
       ELSE /\ tour' = [tour EXCEPT !.active = FALSE, !.step = "done"]
            /\ tpc' = Finished(tpc)
    /\ last' = TourCall(IF tour.username # Null THEN "finish" ELSE "finished")
    /\ UNCHANGED <<ps, dataVars, store, pend>>

\* finish(), lines 90-96: both keys of the name finish() was called with
\* are removed, then the state is set and finish() returns.
FinishRemove ==
    /\ tpc.finish = "remove"
    /\ store' = [store EXCEPT !.tutorialActive[tpc.finishUser] = Null,
                              !.tutorialStep[tpc.finishUser] = Null]
    /\ tour' = [tour EXCEPT !.active = FALSE, !.step = "done"]
    /\ tpc' = [Finished(tpc) EXCEPT
                  !.finish = "idle", !.finishUser = Null,
                  !.startCut = (tpc.startCut \/
                                (/\ tpc.start = "setStep"
                                 /\ tpc.finishUser = Lower(tpc.startUser)))]
    /\ last' = TourCall("finished")
    /\ UNCHANGED <<ps, dataVars, pend>>

\* The app is closed and opened again: the provider is mounted with its
\* initial state and its effect starts; what was suspended or in flight in
\* the old process is gone.
Restart ==
    /\ tour' = InitialTour
    /\ pend' = {}
    /\ tpc' = [IdleTpc EXCEPT !.hydrate = "currentUser",
                              !.finishedFor = tpc.finishedFor]
    /\ last' = [TourCall("restart") EXCEPT !.value = 1]
    /\ UNCHANGED <<ps, dataVars, store>>

\* The effect, lines 47-50: currentUser is read and becomes the username.
HydrateCurrentUser ==
    /\ tpc.hydrate = "currentUser"
    /\ IF store.currentUser # Null
       THEN /\ tour' = [tour EXCEPT !.username = store.currentUser]
            /\ tpc' = [Interrupted(tpc) EXCEPT
                          !.hydrate = "flag",
                          !.hydrateUser = store.currentUser]
       ELSE /\ tour' = tour
            /\ tpc' = [Interrupted(tpc) EXCEPT !.hydrate = "idle"]
    /\ last' = Rehydrating
    /\ UNCHANGED <<ps, dataVars, store, pend>>

\* The effect, lines 51-53: the tour is resumed when the flag is '1'.
HydrateFlag ==
    /\ tpc.hydrate = "flag"
    /\ IF store.tutorialActive[Lower(tpc.hydrateUser)] = "1"
       THEN /\ tour' = [tour EXCEPT !.active = TRUE]
            /\ tpc' = [Interrupted(tpc) EXCEPT !.hydrate = "step"]
       ELSE /\ tour' = tour
            /\ tpc' = [Interrupted(tpc) EXCEPT !.hydrate = "idle",
                                               !.hydrateUser = Null]
    /\ last' = Rehydrating
    /\ UNCHANGED <<ps, dataVars, store, pend>>

\* The effect resuming at home whatever step is saved.
HydrateStep_AlwaysHome ==
    /\ tpc.hydrate = "step"
    /\ tour' = [tour EXCEPT !.step = "home"]
    /\ tpc' = [Interrupted(tpc) EXCEPT !.hydrate = "idle", !.hydrateUser = Null]
    /\ last' = Rehydrating
    /\ UNCHANGED <<ps, dataVars, store, pend>>

\* The effect, lines 55-56: the saved step, or home when none is saved.
HydrateStep ==
    /\ tpc.hydrate = "step"
    /\ LET saved == store.tutorialStep[Lower(tpc.hydrateUser)]
       IN tour' = [tour EXCEPT !.step = IF saved # Null THEN saved ELSE "home"]
    /\ tpc' = [Interrupted(tpc) EXCEPT !.hydrate = "idle", !.hydrateUser = Null]
    /\ last' = Rehydrating
    /\ UNCHANGED <<ps, dataVars, store, pend>>

---------------------------------------------------------------------------
(* The app after a first start on which runMigrations() went through *)

DataInit ==
    /\ db = MigratedDb
    /\ snap = EmptyDb
    /\ inTx = FALSE
    /\ fkOn = TRUE
    /\ mpc = "idle"
    /\ cur = LatestId
    /\ mi = Len(MIGRATIONS) + 1
    /\ si = Len(CANON_LETTERS)
    /\ outcome = "ok"
    /\ h = NoCall
    /\ kv = NullInt
    /\ eu = [c \in Callers |-> IdleFrame]
    /\ nextId = 0
    /\ last = NoCallYet
    /\ now = StartTime
    /\ atStart = 0
    /\ store = SignedInStore("Amal")
    /\ TourAtRest
    /\ ps = InitialPractice

\* Users and statistics: both callers of ensureLocalUser(), attempts of
\* every user, the statistics screen.
Next ==
    \/ \E c \in Callers : EuCall(c)
    \/ \E c \in Callers : EuResume(c)
    \/ \E c \in Callers : EuSetItem(c)
    \/ \E a \in StatInputs : RecordAttempt(a)
    \/ \E u \in UserIds : ReadStats(u)

Spec == DataInit /\ [][Next]_vars

\* Label resolution: one local user, attempts with every kind of label.
LabelNext ==
    \/ EuCall("mount")
    \/ EuResume("mount")
    \/ EuSetItem("mount")
    \/ \E a \in LabelInputs : RecordAttempt(a)

LabelSpec == DataInit /\ [][LabelNext]_vars

---------------------------------------------------------------------------
(* Properties of runMigrations() *)

\* The letters table after a complete seed.
CanonLetterRows == { LetterRow(i) : i \in 0 .. Len(CANON_LETTERS) - 1 }

\* The ids of MIGRATIONS above version v, in the order of the list.
NewerIds(v) ==
    LET ids == [k \in 1 .. Len(MIGRATIONS) |-> MIGRATIONS[k].id]
        Newer(id) == id > v
    IN SelectSeq(ids, Newer)

IsPrefix(s, t) == Len(s) <= Len(t) /\ \A k \in 1 .. Len(s) : s[k] = t[k]

InSeq(x, s) == \E k \in 1 .. Len(s) : s[k] = x

C2_LatestVersionMeansSeeded ==
    (mpc = "idle" /\ ReadVersion(db) = LatestId) =>
        /\ db.letters = CanonLetterRows
        /\ Cardinality(db.letters) = 28
        /\ \A r1, r2 \in db.letters :
               (r1.id = r2.id \/ r1.ar = r2.ar) => r1 = r2
        /\ db.levels = SEED_LEVELS

\* C3: when the migration script or the marker update throws, the call ends
\* with the failure raised, no transaction open, the database (marker and
\* every table) as it was at BEGIN, the seed step of that migration not
\* entered, its id not recorded as applied, and no further BEGIN after it.
C3_FailureRollsBack ==
    (mpc = "idle" /\ outcome = "error" /\ h.failedAt \in {"sql", "update"}) =>
        /\ ~inTx
        /\ db = h.txStart
        /\ ReadVersion(db) = h.startVer
        /\ h.began # << >>
        /\ ~InSeq(h.began[Len(h.began)], h.seeded)
        /\ ~InSeq(h.began[Len(h.began)], h.applied)
        /\ Len(h.began) = Len(h.applied) + 1

\* A call ended by a failing marker update (the script had created the
\* tables inside the transaction) and another ended by a failing script.
C3_Witness ==
    /\ mpc = "idle"
    /\ outcome = "error"
    /\ h.failedAt = "update"
    /\ h.sqlRuns = 1
    /\ h.calls = 2

\* C4 (state part): the ids committed by a call are, in order, the ids above
\* the version it started from, all of them once it returns normally, and
\* then the marker is the highest id; while a seed step runs the transaction
\* that ran the script also wrote the marker and is committed; a seed step
\* runs only for a committed id; _meta holds one row outside transactions.
C4_State ==
    /\ IsPrefix(h.applied, NewerIds(h.startVer))
    /\ IsPrefix(h.seeded, h.applied)
    /\ (mpc = "idle" /\ outcome = "ok") =>
           /\ h.applied = NewerIds(h.startVer)
           /\ ReadVersion(db) = LatestId
    /\ mpc \in {"commit", "post", "seedLetters", "seedLevels"} =>
           /\ h.sqlTx = h.txn
           /\ h.updTx = h.txn
           /\ ReadVersion(db) = MIGRATIONS[mi].id
    /\ mpc \in {"post", "seedLetters", "seedLevels"} =>
           /\ ~inTx
           /\ InSeq(MIGRATIONS[mi].id, h.applied)
    /\ h.calls > 0 => Len(Committed.meta) = 1

\* C4: runMigrations() applies exactly the migrations above the stored
\* version in ascending order, sets the marker inside the migration's own
\* transaction and before its seed step, keeps _meta at one row in every
\* committed state, never lowers the committed version, and ends a normal
\* return with the marker at the highest migration id.
C4_VersionedMigration ==
    /\ []C4_State
    /\ [][ReadVersion(Committed)' >= ReadVersion(Committed)]_vars

\* A first call has migrated from version 0 and returned normally.
C4_Witness ==
    /\ mpc = "idle"
    /\ outcome = "ok"
    /\ h.startVer = 0
    /\ h.applied = <<1>>
    /\ h.seeded = <<1>>
    /\ ReadVersion(db) = LatestId

---------------------------------------------------------------------------
(* The app of a user who has practised before *)

\* <<attempts recorded, of them correct>> of the local user when the
\* behaviour starts: around the thresholds of the seeded levels 1 to 3.
LevelStarts ==
    { <<0, 0>>, <<19, 19>>, <<20, 9>>, <<20, 10>>, <<49, 49>>, <<50, 32>>,
      <<50, 33>>, <<50, 35>>, <<100, 74>>, <<100, 75>> }

\* The database after ensureLocalUser() made user 1 and recordAttempt()
\* stored n attempts of that user on the first letter, the first c of them
\* correct.
PractisedDb(n, c) ==
    [MigratedDb EXCEPT
        !.users = {[id |-> 1, display_name |-> "Local User"]},
        !.attempts = [k \in 1 .. n |->
            [ id                  |-> k,
              user_id             |-> 1,
              target_letter_id    |-> 0,
              predicted_letter_id |-> NullInt,
              correct             |-> IF k <= c THEN 1 ELSE 0,
              created_at          |-> IsoNow(StartTime) ]]]

LevelInit ==
    /\ \E s \in LevelStarts : db = PractisedDb(s[1], s[2]) /\ atStart = s[1]
    /\ snap = EmptyDb
    /\ inTx = FALSE
    /\ fkOn = TRUE
    /\ mpc = "idle"
    /\ cur = LatestId
    /\ mi = Len(MIGRATIONS) + 1
    /\ si = Len(CANON_LETTERS)
    /\ outcome = "ok"
    /\ h = NoCall
    /\ kv = 1
    /\ eu = [c \in Callers |->
                IF c = "mount" THEN [IdleFrame EXCEPT !.ret = 1] ELSE IdleFrame]
    /\ nextId = 1
    /\ last = NoCallYet
    /\ now = StartTime
    /\ store = SignedInStore("Amal")
    /\ TourAtRest
    /\ ps = InitialPractice

\* Attempts of the local user on the first letter.
LevelInputs ==
    [ userId            : {1},
      targetLetterAr    : {CANON_LETTERS[1]},
      predictedLetterAr : {Null},
      correct           : BOOLEAN ]

LevelNext ==
    \/ \E a \in LevelInputs : RecordAttempt(a)
    \/ \E u \in UserIds : ComputeAndUpdateLevel(u)

LevelSpec == LevelInit /\ [][LevelNext]_vars

---------------------------------------------------------------------------
(* The app over the weeks *)

\* Both ensureLocalUser() calls of a first start have returned, each with
\* a users row of its own; no attempt is recorded yet.
TimeInit ==
    /\ db = [MigratedDb EXCEPT
                !.users = { [id |-> u, display_name |-> "Local User"] :
                              u \in UserIds }]
    /\ atStart = 0
    /\ snap = EmptyDb
    /\ inTx = FALSE
    /\ fkOn = TRUE
    /\ mpc = "idle"
    /\ cur = LatestId
    /\ mi = Len(MIGRATIONS) + 1
    /\ si = Len(CANON_LETTERS)
    /\ outcome = "ok"
    /\ h = NoCall
    /\ kv = 2
    /\ eu = [c \in Callers |->
                [IdleFrame EXCEPT !.ret = IF c = "mount" THEN 1 ELSE 2]]
    /\ nextId = 2
    /\ last = NoCallYet
    /\ now = StartTime
    /\ store = SignedInStore("Amal")
    /\ TourAtRest
    /\ ps = InitialPractice

\* Attempts recorded over the weeks: right and wrong ones of user 1 on two
\* letters, with and without a predicted letter, and one of user 2.
TimeInputs ==
    { [userId |-> 1, targetLetterAr |-> CANON_LETTERS[1],
       predictedLetterAr |-> Null, correct |-> TRUE],
      [userId |-> 1, targetLetterAr |-> CANON_LETTERS[1],
       predictedLetterAr |-> CANON_LETTERS[2], correct |-> FALSE],
      [userId |-> 1, targetLetterAr |-> CANON_LETTERS[2],
       predictedLetterAr |-> CANON_LETTERS[2], correct |-> TRUE],
      [userId |-> 2, targetLetterAr |-> CANON_LETTERS[1],
       predictedLetterAr |-> Null, correct |-> TRUE] }

TimeNext ==
    \/ Tick
    \/ \E a \in TimeInputs : RecordAttempt(a)
    \/ \E u \in UserIds : ReadHistory(u)

TimeSpec == TimeInit /\ [][TimeNext]_vars

---------------------------------------------------------------------------
(* The app used day by day *)

\* The database after user 1 practised the first letter once a day, at the
\* first point of the day, on n days in a row from the start on.
DailyDb(n) ==
    [MigratedDb EXCEPT
        !.users = {[id |-> 1, display_name |-> "Local User"]},
        !.attempts = [k \in 1 .. n |->
            [ id                  |-> k,
              user_id             |-> 1,
              target_letter_id    |-> 0,
              predicted_letter_id |-> NullInt,
              correct             |-> 1,
              created_at          |-> IsoNow([day |-> StartTime.day + k - 1,
                                              tod |-> 0]) ]]]

\* It is the last day of a week the user did or did not practise daily on.
WeekInit ==
    /\ \E n \in {0, SevenDays - 1, SevenDays} : db = DailyDb(n) /\ atStart = n
    /\ snap = EmptyDb
    /\ inTx = FALSE
    /\ fkOn = TRUE
    /\ mpc = "idle"
    /\ cur = LatestId
    /\ mi = Len(MIGRATIONS) + 1
    /\ si = Len(CANON_LETTERS)
    /\ outcome = "ok"
    /\ h = NoCall
    /\ kv = 1
    /\ eu = [c \in Callers |->
                IF c = "mount" THEN [IdleFrame EXCEPT !.ret = 1] ELSE IdleFrame]
    /\ nextId = 1
    /\ last = NoCallYet
    /\ now = [day |-> StartTime.day + SevenDays - 1, tod |-> 0]
    /\ store = SignedInStore("Amal")
    /\ TourAtRest
    /\ ps = InitialPractice

WeekNext ==
    \/ TickDay
    \/ \E a \in LevelInputs : RecordAttempt(a)
    \/ ReadHistory(1)

WeekSpec == WeekInit /\ [][WeekNext]_vars

---------------------------------------------------------------------------
(* The app from its first start on *)

\* The schema is in place: runMigrations() is not running and the marker is
\* at the latest version (script and marker are committed together).  On a
\* database without the tables every call of the services throws and
\* changes nothing.
SchemaReady == mpc = "idle" /\ ReadVersion(db) = LatestId

\* Starts of the app (each runs runMigrations()), the local user, attempts
\* and level promotion in between.
StartNext ==
    \/ MigNext
    \/ SchemaReady /\ EuCall("mount")
    \/ SchemaReady /\ EuResume("mount")
    \/ SchemaReady /\ EuSetItem("mount")
    \/ SchemaReady /\ \E a \in LevelInputs : RecordAttempt(a)
    \/ SchemaReady /\ ComputeAndUpdateLevel(1)

StartSpec == MigInit /\ [][StartNext]_vars

---------------------------------------------------------------------------
(* The app in use on a device with accounts *)

\* The schema is in place, the local user exists, both accounts exist and
\* the one named qariai is signed in; no attempt is recorded yet.
AccountInit ==
    /\ db = PractisedDb(0, 0)
    /\ atStart = 0
    /\ snap = EmptyDb
    /\ inTx = FALSE
    /\ fkOn = TRUE
    /\ mpc = "idle"
    /\ cur = LatestId
    /\ mi = Len(MIGRATIONS) + 1
    /\ si = Len(CANON_LETTERS)
    /\ outcome = "ok"
    /\ h = NoCall
    /\ kv = 1
    /\ eu = [c \in Callers |->
                IF c = "mount" THEN [IdleFrame EXCEPT !.ret = 1] ELSE IdleFrame]
    /\ nextId = 1
    /\ last = NoCallYet
    /\ now = StartTime
    /\ store = SignedInStore("qariai")
    /\ TourAtRest
    /\ ps = InitialPractice

\* Practice, the reads of the screens, level promotion, further starts of
\* the app (runMigrations() finds nothing to apply), signing out and in,
\* deleting the account, and the local user being looked up again.
AccountNext ==
    \/ MigStart
    \/ MigLoop
    \/ EuCall("mount")
    \/ EuResume("mount")
    \/ EuSetItem("mount")
    \/ \E a \in LevelInputs : RecordAttempt(a)
    \/ ComputeAndUpdateLevel(1)
    \/ ReadStats(1)
    \/ ReadHistory(1)
    \/ ReadLevel(1)
    \/ \E u \in Usernames : SignIn(u)
    \/ Logout
    \/ DeleteAccount

AccountSpec == AccountInit /\ [][AccountNext]_vars

---------------------------------------------------------------------------
(* The guided tour from a device nobody has signed up on *)

TourInit ==
    /\ db = MigratedDb
    /\ atStart = 0
    /\ snap = EmptyDb
    /\ inTx = FALSE
    /\ fkOn = TRUE
    /\ mpc = "idle"
    /\ cur = LatestId
    /\ mi = Len(MIGRATIONS) + 1
    /\ si = Len(CANON_LETTERS)
    /\ outcome = "ok"
    /\ h = NoCall
    /\ kv = NullInt
    /\ eu = [c \in Callers |-> IdleFrame]
    /\ nextId = 0
    /\ last = NoCallYet
    /\ now = StartTime
    /\ store = EmptyStore
    /\ TourAtRest
    /\ ps = InitialPractice

\* The tour is followed for one account.
TourUsers == {"Amal"}

\* The account is created (which starts the tour), the tour's context is
\* called, the writes are carried out, the app is restarted, the user signs
\* out and in and deletes the account.
TourNext ==
    \/ \E u \in TourUsers : SignUp(u)
    \/ StartSetActive
    \/ StartSetStep
    \/ next
    \/ markPracticeDone
    \/ \E w \in pend : PersistDone(w)
    \/ \E u \in TourUsers \cup {Null} : setUsername(u)
    \/ finish
    \/ FinishRemove
    \/ Restart
    \/ HydrateCurrentUser
    \/ HydrateFlag
    \/ HydrateStep
    \/ \E u \in TourUsers : SignIn(u)
    \/ Logout
    \/ DeleteAccount

TourSpec == TourInit /\ [][TourNext]_vars

---------------------------------------------------------------------------
(* One session of the app with two accounts *)

\* The app stays open: accounts are created (each starts the tour), the
\* tour's context is called, the writes are carried out, users sign out
\* and in.
SessionNext ==
    \/ \E u \in Usernames : SignUp(u)
    \/ StartSetActive
    \/ StartSetStep
    \/ next
    \/ markPracticeDone
    \/ \E w \in pend : PersistDone(w)
    \/ finish
    \/ FinishRemove
    \/ \E u \in Usernames : SignIn(u)
    \/ Logout

SessionSpec == TourInit /\ [][SessionNext]_vars

---------------------------------------------------------------------------
(* Properties of recordAttempt() and ensureLocalUser() *)

\* The label is the ar of a letters row.
InCatalog(d, ar) == \E l \in d.letters : l.ar = ar

\* The step is a call of recordAttempt() that changed the database or ended
\* otherwise than the call before it; last' holds its input and result.
RecordAttemptStep ==
    /\ last'.op = "recordAttempt"
    /\ eu' = eu
    /\ <<db, last>>' # <<db, last>>

\* C5: a recordAttempt() whose target label, or whose non-empty predicted
\* label, is not in the letters catalog ends with the unknown-letter error
\* and leaves every table as it was, a known target with an unknown
\* predicted label included (nothing is inserted before both are resolved).
C5_UnknownLetterChangesNothing ==
    [][ ( /\ RecordAttemptStep
          /\ \/ ~InCatalog(db, last'.a.targetLetterAr)
             \/ /\ last'.a.predictedLetterAr \notin {Null, ""}
                /\ ~InCatalog(db, last'.a.predictedLetterAr) )
        => ( last'.result = "Unknown letter" /\ db' = db ) ]_vars

\* A call with a catalog target and a foreign predicted label has failed
\* on a database that already holds an attempt.
C5_Witness ==
    /\ last.op = "recordAttempt"
    /\ last.result = "Unknown letter"
    /\ InCatalog(db, last.a.targetLetterAr)
    /\ last.a.predictedLetterAr \notin {Null, ""}
    /\ ~InCatalog(db, last.a.predictedLetterAr)
    /\ Len(db.attempts) >= 1

\* C6: a successful recordAttempt() appends exactly one attempts row: it
\* carries the given user, the id of the letters row of the target label,
\* the id of the letters row of the predicted label or null when none is
\* given, and correct as 1 or 0; the earlier attempts rows and every other
\* table are unchanged.
C6_SuccessAppendsOneRow ==
    [][ ( RecordAttemptStep /\ last'.result = "ok" )
        => LET a   == last'.a
               n   == Len(db.attempts)
               row == db'.attempts[n + 1]
           IN /\ Len(db'.attempts) = n + 1
              /\ SubSeq(db'.attempts, 1, n) = db.attempts
              /\ row.user_id = a.userId
              /\ \E l \in db.letters :
                     l.ar = a.targetLetterAr /\ row.target_letter_id = l.id
              /\ IF a.predictedLetterAr \in {Null, ""}
                 THEN row.predicted_letter_id = NullInt
                 ELSE \E l \in db.letters :
                         /\ l.ar = a.predictedLetterAr
                         /\ row.predicted_letter_id = l.id
              /\ row.correct \in {0, 1}
              /\ (row.correct = 1) <=> a.correct
              /\ db'.users = db.users
              /\ db'.letters = db.letters
              /\ db'.levels = db.levels
              /\ db'.user_levels = db.user_levels
              /\ db'.meta = db.meta
              /\ db'.tables = db.tables ]_vars

\* A second attempt has been stored after a first one: a wrong one without
\* a predicted letter, following one with a predicted letter.
C6_Witness ==
    /\ last.op = "recordAttempt"
    /\ last.result = "ok"
    /\ Len(db.attempts) = 2
    /\ db.attempts[1].predicted_letter_id # NullInt
    /\ db.attempts[2].predicted_letter_id = NullInt
    /\ db.attempts[2].correct = 0

\* The references of every attempts row resolve.
C7_State ==
    \A r \in AttemptRows(db) :
        /\ \E u \in db.users : u.id = r.user_id
        /\ \E l \in db.letters : l.id = r.target_letter_id
        /\ \/ r.predicted_letter_id = NullInt
           \/ \E l \in db.letters : l.id = r.predicted_letter_id

\* C7: in every reachable state every attempts row references an existing
\* user and an existing target letter, and its predicted letter is null or
\* exists; a recordAttempt() for a userId without a users row fails and
\* adds no attempts row.
C7_AttemptsReferenceExistingRows ==
    /\ []C7_State
    /\ [][ ( /\ RecordAttemptStep
             /\ \A u \in db.users : u.id # last'.a.userId )
           => ( last'.result # "ok" /\ db' = db ) ]_vars

\* An attempt for user 2 has been refused while only user 1 exists and has
\* an attempt stored.
C7_Witness ==
    /\ last.op = "recordAttempt"
    /\ last.result = FkViolation
    /\ last.a.userId = 2
    /\ { u.id : u \in db.users } = {1}
    /\ \E r \in AttemptRows(db) : r.user_id = 1

\* C8: all calls of ensureLocalUser() return the same id and at most one
\* users row exists, also when calls overlap.
C8_OneLocalUser ==
    /\ Cardinality(db.users) <= 1
    /\ \A c, d \in Callers :
           (eu[c].ret # NullInt /\ eu[d].ret # NullInt) => eu[c].ret = eu[d].ret

---------------------------------------------------------------------------
(* Properties of the statistics queries *)

\* C9: whenever the app is at rest on a database whose marker is at the
\* latest version, for every user and whatever attempts are recorded,
\* getPerLetterStats returns 28 rows, the k-th being the row of the letter
\* with order_index k - 1 (the k-th entry of CANON_LETTERS).
C9_PerLetterStatsCoverCatalog ==
    (mpc = "idle" /\ ReadVersion(db) = LatestId) =>
        \A u \in UserIds :
            LET stats == GetPerLetterStats(db, u)
            IN /\ Len(stats) = 28
               /\ \A k \in 1 .. Len(stats) : stats[k].ar = CANON_LETTERS[k]

\* C10: for a user without attempts, also when other users have some,
\* every row of getPerLetterStats has n = 0, correct = 0 and acc = 0, and
\* getTotals gives n = 0, correct = 0, acc = 0.
C10_NoAttemptsAllZero ==
    \A u \in UserIds :
        (\A a \in AttemptRows(db) : a.user_id # u) =>
            LET stats == GetPerLetterStats(db, u)
            IN /\ \A k \in DOMAIN stats :
                      /\ stats[k].n = 0
                      /\ stats[k].correct = 0
                      /\ stats[k].acc = Zero
               /\ GetTotals(db, u) = [n |-> 0, correct |-> 0, acc |-> Zero]

\* User 2 exists and has no attempt while user 1 has a correct one, and the
\* statistics have been read.
C10_Witness ==
    /\ last.op = "readStats"
    /\ last.a.userId = 2
    /\ 2 \in { u.id : u \in db.users }
    /\ \A a \in AttemptRows(db) : a.user_id = 1
    /\ \E a \in AttemptRows(db) : a.correct = 1

\* C11: after a successful recordAttempt() for user U and letter L, the row
\* of L in getPerLetterStats(U) has n one larger, and correct one larger
\* when the attempt was correct and unchanged when it was not; the row of
\* every other letter is unchanged; getTotals(U) changes in the same way.
C11_StatsFollowTheAttempt ==
    [][ ( RecordAttemptStep /\ last'.result = "ok" )
        => \A inc \in {IF last'.a.correct THEN 1 ELSE 0} :
           \A before \in {GetPerLetterStats(db, last'.a.userId)} :
           \A after \in {GetPerLetterStats(db', last'.a.userId)} :
           \A tb \in {GetTotals(db, last'.a.userId)} :
           \A ta \in {GetTotals(db', last'.a.userId)} :
              /\ Len(after) = Len(before)
              /\ \A k \in 1 .. Len(before) :
                     IF before[k].ar = last'.a.targetLetterAr
                     THEN /\ after[k].ar = before[k].ar
                          /\ after[k].n = before[k].n + 1
                          /\ after[k].correct = before[k].correct + inc
                     ELSE after[k] = before[k]
              /\ ta.n = tb.n + 1
              /\ ta.correct = tb.correct + inc ]_vars

\* A wrong attempt on the first letter has been recorded after a correct
\* one on the same letter.
C11_Witness ==
    /\ last.op = "recordAttempt"
    /\ last.result = "ok"
    /\ ~last.a.correct
    /\ Len(db.attempts) = 2
    /\ db.attempts[1].correct = 1
    /\ db.attempts[1].target_letter_id = db.attempts[2].target_letter_id

---------------------------------------------------------------------------
(* Properties of the level promotion *)

\* Attempts of user u and how many of them are correct, counted row by row.
CountOf(d, u) == Cardinality({ k \in DOMAIN d.attempts : d.attempts[k].user_id = u })

CorrectOf(d, u) ==
    Cardinality({ k \in DOMAIN d.attempts :
                    d.attempts[k].user_id = u /\ d.attempts[k].correct = 1 })

\* The levels whose two thresholds n attempts with c correct ones meet
\* (the accuracy of no attempts is 0).
Qualifying(d, n, c) ==
    { L \in d.levels :
        /\ L.min_attempts <= n
        /\ IF n = 0 THEN L.min_accuracy <= 0
                    ELSE L.min_accuracy * n <= 100 * c }

HighestQualifying(d, n, c) ==
    IF Qualifying(d, n, c) = {} THEN 1
    ELSE CHOOSE v \in { L.level : L \in Qualifying(d, n, c) } :
            \A L \in Qualifying(d, n, c) : L.level <= v

\* C12: computeAndUpdateLevel(user), for a user of the app, returns the
\* highest level of the levels table whose min_attempts and min_accuracy
\* the user's attempts meet, and 1 when none does; 20 attempts at 50% give
\* level 1 and 50 attempts at 70% give level 2.
C12_HighestQualifyingLevel ==
    ( /\ last.op = "computeAndUpdateLevel"
      /\ \E u \in db.users : u.id = last.a.userId )
    => \A n \in {CountOf(db, last.a.userId)} :
       \A c \in {CorrectOf(db, last.a.userId)} :
          /\ last.result = "ok"
          /\ last.value = HighestQualifying(db, n, c)
          /\ (n = 20 /\ c = 10) => last.value = 1
          /\ (n = 50 /\ c = 35) => last.value = 2

\* The accuracy of n attempts with c correct ones is below pct percent.
AccBelow(n, c, pct) == IF n = 0 THEN 0 < pct ELSE 100 * c < pct * n

MinAccuracyOf(d, k) == (CHOOSE L \in d.levels : L.level = k).min_accuracy

\* C13 as stated: whenever computeAndUpdateLevel runs for a user whose
\* stored level is k and whose accuracy is below the min_accuracy of level
\* k, it returns a level lower than k.
C13_DemotedBelowStoredLevel ==
    ( /\ last.op = "computeAndUpdateLevel"
      /\ last.result = "ok"
      /\ last.prev # NullInt
      /\ AccBelow(CountOf(db, last.a.userId), CorrectOf(db, last.a.userId),
                  MinAccuracyOf(db, last.prev)) )
    => last.value < last.prev

\* C13 amended: the level computeAndUpdateLevel returns and stores is the
\* highest level the current attempts qualify for (1 when none), whatever
\* level was stored before; when the stored level is k >= 2 and the
\* accuracy is below the min_accuracy of level k, it is lower than k.
C13_RecomputedFromScratch ==
    ( last.op = "computeAndUpdateLevel" /\ last.result = "ok" )
    => \A n \in {CountOf(db, last.a.userId)} :
       \A c \in {CorrectOf(db, last.a.userId)} :
          /\ last.value = HighestQualifying(db, n, c)
          /\ \E r \in db.user_levels :
                 r.user_id = last.a.userId /\ r.level = last.value
          /\ ( /\ last.prev # NullInt
               /\ last.prev >= 2
               /\ AccBelow(n, c, MinAccuracyOf(db, last.prev)) )
             => last.value < last.prev

\* A user stored at level 3 has been set to level 2.
C13_Witness ==
    /\ last.op = "computeAndUpdateLevel"
    /\ last.prev = 3
    /\ last.value = 2
    /\ AccBelow(CountOf(db, 1), CorrectOf(db, 1), MinAccuracyOf(db, 3))

\* The step is a call of operation op of the data service.
ServiceStep(op) ==
    /\ last'.op = op
    /\ UNCHANGED <<ps, migVars, userVars, envVars, store, tourVars>>

\* user_levels has at most one row per user, each with a level of the
\* levels table, and getCurrentLevel returns the level of the user's row,
\* or 1 for a user without a row.
C14_State ==
    /\ \A r1, r2 \in db.user_levels : r1.user_id = r2.user_id => r1 = r2
    /\ \A r \in db.user_levels :
           /\ \E L \in db.levels : L.level = r.level
           /\ GetCurrentLevel(db, r.user_id) = r.level
    /\ \A u \in UserIds :
           (\A r \in db.user_levels : r.user_id # u) => GetCurrentLevel(db, u) = 1

\* C14: in every state reached by recordAttempt and computeAndUpdateLevel
\* calls C14_State holds; a computeAndUpdateLevel call that returns leaves
\* the returned level in the user's row and the rows of other users as
\* they were, and no other step changes user_levels: the row holds what
\* the most recent call for the user returned.
C14_StoredLevelIsLatestReturned ==
    /\ []C14_State
    /\ [][ IF ServiceStep("computeAndUpdateLevel") /\ last'.result = "ok"
           THEN /\ \E r \in db'.user_levels :
                      r.user_id = last'.a.userId /\ r.level = last'.value
                /\ \A r \in db.user_levels \cup db'.user_levels :
                      r.user_id # last'.a.userId
                      => (r \in db.user_levels /\ r \in db'.user_levels)
           ELSE db'.user_levels = db.user_levels ]_vars

\* A second computeAndUpdateLevel call has replaced the stored level of
\* the user by a different one.
C14_Witness ==
    /\ last.op = "computeAndUpdateLevel"
    /\ last.result = "ok"
    /\ last.prev # NullInt
    /\ last.prev # last.value
    /\ GetCurrentLevel(db, last.a.userId) = last.value

---------------------------------------------------------------------------
(* Properties of the 7-day series and the recent attempts *)

\* The attempt with stored text created_at was made no earlier than seven
\* days before clock reading t.
Within7Days(created_at, t) ==
    \/ created_at[1] > t.day - SevenDays
    \/ created_at[1] = t.day - SevenDays /\ created_at[3] >= t.tod

\* The series has exactly one bucket per date of the attempts in rows, with
\* n their number and acc their share of correct ones, and no other bucket.
IsSeriesOf(series, rows) ==
    /\ \A i, j \in DOMAIN series : series[i].day = series[j].day => i = j
    /\ \A i \in DOMAIN series :
           \A mine \in {{ a \in rows : a.created_at[1] = series[i].day }} :
              /\ mine # {}
              /\ series[i].n = Cardinality(mine)
              /\ series[i].acc.num * series[i].n =
                    Cardinality({ a \in mine : a.correct = 1 }) * series[i].acc.den
    /\ \A a \in rows : \E i \in DOMAIN series : series[i].day = a.created_at[1]

\* Sets of letter names getLast7DaysForLetters is asked for.
LetterNameSets == { {CANON_LETTERS[1]}, {CANON_LETTERS[1], CANON_LETTERS[2]} }

\* C15: getLast7Days(user) and getLast7DaysForLetters(user, letters) give
\* the series of exactly the user's attempts (on those letters) made no
\* earlier than 7 days before the query: older ones are left out, and the
\* attempts of one date form one bucket with their count and accuracy.
C15_SevenDaySeries ==
    \A u \in UserIds :
        /\ IsSeriesOf(GetLast7Days(db, u, now),
                      { a \in AttemptRows(db) :
                          a.user_id = u /\ Within7Days(a.created_at, now) })
        /\ \A names \in LetterNameSets :
              IsSeriesOf(GetLast7DaysForLetters(db, u, names, now),
                         { a \in AttemptRows(db) :
                             /\ a.user_id = u
                             /\ Within7Days(a.created_at, now)
                             /\ \E l \in db.letters :
                                    l.id = a.target_letter_id /\ l.ar \in names })

\* Limits getRecentAttempts is called with (5 is its default).
RecentLimits == {0, 1, 2, 5}

\* Attempts row a was created later than attempts row b.
Newer(a, b) ==
    \/ a.created_at[1] > b.created_at[1]
    \/ a.created_at[1] = b.created_at[1] /\ a.created_at[3] > b.created_at[3]

\* The label of the catalog letter with that id, null for no id.
LabelOf(id) == IF id = NullInt THEN Null ELSE CANON_LETTERS[id + 1]

\* C16: getRecentAttempts(user, N) returns min(N, number of the user's
\* attempts) rows, each of a different attempt of that user, none created
\* later than the row before it, and no attempt of the user that is left
\* out is newer than a returned one; each row carries the label of the
\* target letter and the label of the predicted letter, or null.
C16_RecentAttemptsNewestFirst ==
    \A u \in UserIds : \A N \in RecentLimits :
    \A count \in {CountOf(db, u)} :
        /\ RecentOrders(db, u, N) # {}
        /\ \A q \in RecentOrders(db, u, N) :
              /\ Len(q) = IF N < count THEN N ELSE count
              /\ \A i \in DOMAIN q : db.attempts[q[i]].user_id = u
              /\ \A i, j \in DOMAIN q : i < j =>
                     /\ q[i] # q[j]
                     /\ ~Newer(db.attempts[q[j]], db.attempts[q[i]])
              /\ \A k \in DOMAIN db.attempts :
                     (db.attempts[k].user_id = u /\ \A i \in DOMAIN q : q[i] # k)
                     => \A i \in DOMAIN q :
                           ~Newer(db.attempts[k], db.attempts[q[i]])
        /\ \A rows \in GetRecentAttempts(db, u, N) :
              \E q \in RecentOrders(db, u, N) :
                 /\ Len(rows) = Len(q)
                 /\ \A i \in DOMAIN q :
                       /\ rows[i].created_at = db.attempts[q[i]].created_at
                       /\ rows[i].correct = db.attempts[q[i]].correct
                       /\ rows[i].target_ar =
                             LabelOf(db.attempts[q[i]].target_letter_id)
                       /\ rows[i].predicted_ar =
                             LabelOf(db.attempts[q[i]].predicted_letter_id)

\* The recent attempts of user 1 have been read while two attempts of
\* user 1 from different times are stored, the later one with a predicted
\* letter.
C16_Witness ==
    /\ last.op = "readHistory"
    /\ last.a.userId = 1
    /\ Len(db.attempts) = 2
    /\ db.attempts[1].user_id = 1
    /\ db.attempts[2].user_id = 1
    /\ Newer(db.attempts[2], db.attempts[1])
    /\ db.attempts[2].predicted_letter_id # NullInt

---------------------------------------------------------------------------
(* Attempts are append-only *)

\* The operations that only read the database.
ReadOps == {"readStats", "readHistory", "getCurrentLevel"}

\* C17: the rows of attempts are never modified or removed: not by the
\* read operations, computeAndUpdateLevel, getCurrentLevel, a repeated
\* runMigrations(), signing out or deleting the account.  Every step keeps
\* the rows there are, only a successful recordAttempt() adds one, and a
\* read changes nothing that is stored, in the database or in AsyncStorage.
C17_AttemptsAppendOnly ==
    [][ /\ Len(db'.attempts) >= Len(db.attempts)
        /\ SubSeq(db'.attempts, 1, Len(db.attempts)) = db.attempts
        /\ db'.attempts # db.attempts =>
              /\ RecordAttemptStep
              /\ last'.result = "ok"
              /\ Len(db'.attempts) = Len(db.attempts) + 1
        /\ (last' # last /\ last'.op \in ReadOps) =>
              /\ db' = db
              /\ store' = store
              /\ kv' = kv ]_vars

\* Attempts are stored, a level was computed from them, the app was started
\* again, the account named qariai was deleted (and with it the key of the
\* local user id), and the latest call was a read.
C17_Witness ==
    /\ Len(db.attempts) = MaxAttempts
    /\ db.user_levels # {}
    /\ h.calls >= 1
    /\ mpc = "idle"
    /\ store.users[KEY_PREFIX] = Null
    /\ kv = NullInt
    /\ last.op \in ReadOps

---------------------------------------------------------------------------
(* Properties of the guided tour *)

\* The step is a call of operation op of the tour's context.
TourStep(op) ==
    /\ last'.op = op
    /\ <<tour, pend, tpc, last>>' # <<tour, pend, tpc, last>>

\* C18: each next() call moves step from position i of the order home,
\* levels, practice, profile, done to position min(i+1, 4) (positions
\* counted from 0): one position further per call, and a call made at done
\* leaves step at done.
C18_NextAdvancesOnePosition ==
    [][ TourStep("next") =>
          /\ tour.step = "home"     => tour'.step = "levels"
          /\ tour.step = "levels"   => tour'.step = "practice"
          /\ tour.step = "practice" => tour'.step = "profile"
          /\ tour.step = "profile"  => tour'.step = "done"
          /\ tour.step = "done"     => tour'.step = "done" ]_vars

\* next() was called at done and step is done.
C18_Witness ==
    /\ last.op = "next"
    /\ last.prev = Len(ORDER)
    /\ tour.step = "done"

\* C19: markPracticeDone() called at any step of an active tour (of a
\* user: the provider holds a username) sets step to profile, issues the
\* write of profile under the user's tutorialStep key, and leaves the
\* active flag unchanged in memory and in AsyncStorage; the write, when it
\* is carried out, stores profile as the user's step and leaves the
\* persisted active flag as it is.
C19_MarkPracticeDoneJumpsToProfile ==
    [][ /\ (TourStep("markPracticeDone") /\ tour.active /\ tour.username # Null) =>
              /\ tour'.step = "profile"
              /\ [key |-> Lower(tour.username), step |-> "profile"] \in pend'
              /\ tour'.active = tour.active
              /\ store'.tutorialActive = store.tutorialActive
        /\ TourStep("persist") =>
              /\ \A w \in pend \ pend' : store'.tutorialStep[w.key] = w.step
              /\ store'.tutorialActive = store.tutorialActive
              /\ tour' = tour ]_vars

\* markPracticeDone() was called at home in the active tour of Amal: the
\* step is profile, its write is in flight, the tour is still active and
\* flagged active.
C19_Witness ==
    /\ last.op = "markPracticeDone"
    /\ last.prev = 1
    /\ tour = [active |-> TRUE, step |-> "profile", username |-> "Amal"]
    /\ [key |-> "amal", step |-> "profile"] \in pend
    /\ store.tutorialActive["amal"] = "1"

\* C20: after finish() has returned for a tour started with start(u),
\* whatever next(), markPracticeDone() and setUsername() calls came in
\* between and whether or not their writes are still in flight: when
\* finish() returns the tour is inactive at step done, the persisted
\* active flag of u is absent, and the tour stays inactive, also after a
\* restart of the app with u signed in.
C20_FinishedTourStaysOff ==
    tpc.finishedFor # Null =>
        /\ last.op = "finished" => (~tour.active /\ tour.step = "done")
        /\ store.tutorialActive[Lower(tpc.finishedFor)] = Null
        /\ ~tour.active

---------------------------------------------------------------------------
(* Properties of start() and of the rehydration *)

\* The step belongs to start(): the call, its first write, or its second
\* write with the return.
StartCalled   == tpc.start = "idle" /\ tpc'.start = "setActive"
StartWrote    == tpc.start = "setActive" /\ tpc'.start = "setStep"
StartReturned == tpc.start = "setStep" /\ tpc'.start = "idle"

\* The step leaves the tour keys of every name but k as they are.
OtherKeysKept(k) ==
    \A o \in NameKeys \ {k} :
        /\ store'.tutorialActive[o] = store.tutorialActive[o]
        /\ store'.tutorialStep[o] = store.tutorialStep[o]

\* What start(u) leaves in memory and under the step key of u when it
\* returns, and that no step of it touches the keys of another name.
StartEffects ==
    /\ StartCalled => OtherKeysKept(Lower(tpc'.startUser))
    /\ StartWrote =>
          /\ store'.tutorialActive[Lower(tpc.startUser)] = "1"
          /\ OtherKeysKept(Lower(tpc.startUser))
    /\ StartReturned =>
          /\ tour'.step = "home"
          /\ tour'.active
          /\ store'.tutorialStep[Lower(tpc.startUser)] = "home"
          /\ OtherKeysKept(Lower(tpc.startUser))

RehydrationEnds ==
    /\ tpc.hydrate # "idle"
    /\ tpc'.hydrate = "idle"
    /\ last'.op = "rehydrate"
    /\ last'.value = 1

\* C22: at app start the tour is rehydrated from storage.  When no user is
\* signed in, or the active flag of the signed-in user is not '1', the tour
\* stays inactive at step home; when the flag is '1' the tour becomes
\* active at that user's stored step, or at home when none is stored.  The
\* provider is mounted inactive at home, and each read of the effect acts
\* on what it finds in storage.
C22_RehydratedFromStorage ==
    [][ /\ last'.op = "restart" /\ last' # last => tour' = InitialTour
        /\ RehydrationEnds =>
              /\ tpc.hydrate = "currentUser" =>
                    /\ store.currentUser = Null
                    /\ tour' = InitialTour
              /\ tpc.hydrate = "flag" =>
                    /\ store.tutorialActive[Lower(tpc.hydrateUser)] # "1"
                    /\ ~tour'.active
                    /\ tour'.step = "home"
              /\ tpc.hydrate = "step" =>
                    /\ tour'.active
                    /\ \A saved \in {store.tutorialStep[Lower(tpc.hydrateUser)]} :
                          tour'.step = IF saved = Null THEN "home" ELSE saved
        /\ (tpc.hydrate = "currentUser" /\ tpc'.hydrate = "flag") =>
              /\ store.currentUser # Null
              /\ tpc'.hydrateUser = store.currentUser
        /\ (tpc.hydrate = "flag" /\ tpc'.hydrate = "step") =>
              store.tutorialActive[Lower(tpc.hydrateUser)] = "1" ]_vars

\* The app was started with Amal signed in and the tour flagged active at
\* the stored step practice: the tour is active at practice.
C22_Witness ==
    /\ last.op = "rehydrate"
    /\ last.value = 1
    /\ tpc.hydrate = "idle"
    /\ store.currentUser = "Amal"
    /\ store.tutorialActive["amal"] = "1"
    /\ store.tutorialStep["amal"] = "practice"
    /\ tour = [active |-> TRUE, step |-> "practice", username |-> "Amal"]

---------------------------------------------------------------------------
(* Invariants of the guided tour *)

\* C28: in every reachable state of the tour, also after rehydration, an
\* active tour is at one of home, levels, practice, profile, never at done,
\* and no name has its persisted active flag set while its persisted step
\* is done.
C28_NeverActiveAtDone ==
    /\ tour.active => tour.step \in StepNames \ {"done"}
    /\ \A k \in NameKeys :
          store.tutorialActive[k] = "1" => store.tutorialStep[k] # "done"

\* The name key of the signed-in user.
SignedInKey == Lower(store.currentUser)

\* User A, whose tour the provider last started, has logged out and a
\* different user B has signed in to an existing account.  (Creating an
\* account starts the tour for its user; within a session nothing else
\* sets the provider's username.)
SignedInAfterAnother ==
    /\ store.currentUser # Null
    /\ tour.username # Null
    /\ tour.username # store.currentUser

\* C29: within one session, once user A has logged out and a different,
\* existing user B has signed in, the tour is active only if the persisted
\* active flag of B is set, and the calls of the tour made while B is
\* signed in write and remove the tour keys of B only.
C29_TourFollowsSignedInUser ==
    /\ []((SignedInAfterAnother /\ tour.active)
           => store.tutorialActive[SignedInKey] = "1")
    /\ [][ SignedInAfterAnother =>
              /\ (last'.op \in {"next", "markPracticeDone"} /\ last' # last) =>
                    \A w \in pend' \ pend : w.key = SignedInKey
              /\ (tpc.finish = "idle" /\ tpc'.finish = "remove") =>
                    tpc'.finishUser = SignedInKey ]_vars

---------------------------------------------------------------------------
(* The two 7-day series compared *)

\* The labels of the whole catalog.
FullCatalog == { CANON_LETTERS[i] : i \in 1 .. Len(CANON_LETTERS) }

\* The letter sets the series is asked for: none, single letters with and
\* without attempts, two letters, all.
LetterSubsets ==
    { {}, {CANON_LETTERS[1]}, {CANON_LETTERS[2]}, {CANON_LETTERS[3]},
      {CANON_LETTERS[1], CANON_LETTERS[2]}, FullCatalog }

\* The attempts of user u that getLast7Days counts at clock reading t: the
\* rows that pass its WHERE clause.
CountedByLast7Days(d, u, t) ==
    { a \in AttemptRows(d) :
        a.user_id = u /\ TextGeq(a.created_at, DatetimeMinus7(t)) }

\* C25: getLast7DaysForLetters(user, S) counts exactly the attempts that
\* getLast7Days(user) counts and whose target letter label is in S; with S
\* the full catalog it returns what getLast7Days(user) returns, with S
\* empty the empty series.
C25_LetterSeriesRestrictsSeries ==
    \A u \in UserIds :
      \A all \in {GetLast7Days(db, u, now)} :
        /\ IsSeriesOf(all, CountedByLast7Days(db, u, now))
        /\ \A S \in LetterSubsets :
              IsSeriesOf(GetLast7DaysForLetters(db, u, S, now),
                         { a \in CountedByLast7Days(db, u, now) :
                             LabelOf(a.target_letter_id) \in S })
        /\ GetLast7DaysForLetters(db, u, FullCatalog, now) = all
        /\ GetLast7DaysForLetters(db, u, {}, now) = << >>

\* The series were read for user 1, who has attempts on two letters on one
\* day, one of them with the second letter predicted for the first: the
\* full series counts both, the series of the second letter one.
C25_Witness ==
    /\ last.op = "readHistory"
    /\ last.a.userId = 1
    /\ Len(GetLast7Days(db, 1, now)) = 1
    /\ GetLast7Days(db, 1, now)[1].n = 2
    /\ Len(GetLast7DaysForLetters(db, 1, {CANON_LETTERS[2]}, now)) = 1
    /\ GetLast7DaysForLetters(db, 1, {CANON_LETTERS[2]}, now)[1].n = 1
    /\ \E k \in DOMAIN db.attempts :
          /\ db.attempts[k].target_letter_id = 0
          /\ db.attempts[k].predicted_letter_id = 1

\* The series has at most n entries, and the day of each entry is later
\* than the day of the entry before it.
AtMostAscending(series, n) ==
    /\ Len(series) <= n
    /\ \A i \in 1 .. Len(series) - 1 : series[i].day < series[i + 1].day

---------------------------------------------------------------------------
(* Per-letter statistics against the totals *)

\* The values of field f of the rows stats[1..k], added up.
RECURSIVE SumField(_, _, _)
SumField(stats, f, k) ==
    IF k = 0 THEN 0 ELSE stats[k][f] + SumField(stats, f, k - 1)

\* C26: for every user and every reachable state, n added up over the rows
\* of getPerLetterStats(user) is getTotals(user).n, correct added up is
\* getTotals(user).correct, and every row and the totals have
\* 0 <= correct <= n.
C26_RowsAddUpToTotals ==
    \A u \in UserIds :
        \A stats \in {GetPerLetterStats(db, u)} :
            \A totals \in {GetTotals(db, u)} :
                /\ Len(stats) = Len(CANON_LETTERS)
                /\ SumField(stats, "n", Len(stats)) = totals.n
                /\ SumField(stats, "correct", Len(stats)) = totals.correct
                /\ \A k \in DOMAIN stats :
                      0 <= stats[k].correct /\ stats[k].correct <= stats[k].n
                /\ 0 <= totals.correct /\ totals.correct <= totals.n

\* The statistics of user 1 were read; user 1 has a correct attempt on the
\* first letter and user 2 has an attempt too.
C26_Witness ==
    /\ last.op = "readStats"
    /\ last.a.userId = 1
    /\ \E a \in AttemptRows(db) :
          a.user_id = 1 /\ a.target_letter_id = 0 /\ a.correct = 1
    /\ \E a \in AttemptRows(db) : a.user_id = 2

---------------------------------------------------------------------------
(* screens/PracticeScreen.tsx: the handlers of one lesson *)

\* `last` after a step of a PracticeScreen handler.  For handleSend, value
\* and prev tell the tour the handler was created with (value 1 when
\* active, prev the position of step) and result how it went.
PracticeCall(op) == [NoCallYet EXCEPT !.op = op]

\* GLYPH_TO_CANON_AR[letters[i]]: items 0, 1, ... of level 1 are the letters
\* of the catalog in order; letters[i] is undefined outside the lesson.
TargetCanonAr(i) ==
    IF i \in 0 .. MaxItems - 1 THEN CANON_LETTERS[i + 1] ELSE Null

\* recordings[i] as the screen reads it (currentRecording for i the
\* current index).
Recording(p, i) ==
    IF i \in DOMAIN p.recordings THEN p.recordings[i] ELSE NoRecording

\* setRecordings(prev => ({...prev, [i]: r})).  An entry outside the lesson
\* is only ever written as NoRecording and reads as such anyway.
SetRecording(p, i, r) ==
    IF i \in DOMAIN p.recordings
    THEN [p EXCEPT !.recordings[i] = r]
    ELSE p

\* setCurrentIndex(i) followed by the effect on [currentIndex,
\* currentLetter] (lines 311-327): the two flags are taken from the
\* recording of the item now shown.
ShowItem(p, i) ==
    [p EXCEPT !.currentIndex = i,
              !.hasRecording = Recording(p, i).uri,
              !.hasSentRecording = Recording(p, i).sent]

\* The closure a suspended handler runs on with, as far as the handler
\* reads it after the await: the render's currentIndex (handleSend,
\* handleRetry, handlePrev, handleNext), correctItems
\* (handleCompleteLesson) and, from useTutorial(), active and step
\* (handleSend).  Values the handler does not read are left at a default.
Closure(kind) ==
    [kind |-> kind,
     index |-> IF kind = "complete" THEN 0 ELSE ps.currentIndex,
     correctItems |-> IF kind = "complete" THEN ps.correctItems ELSE 0,
     active |-> kind = "send" /\ tour.active,
     step |-> IF kind = "send" THEN tour.step ELSE "home"]

\* The sequence without its k-th element.
Without(seq, k) == SubSeq(seq, 1, k - 1) \o SubSeq(seq, k + 1, Len(seq))

\* The suspended handlers after handler k has run to its end.
Resumed(p, k) == [p EXCEPT !.pending = Without(p.pending, k)]

\* The screen is mounted: navigation.replace('Results') unmounts it.
Mounted == ps.results = NoResults

\* userId of the render: what the mount effect's ensureLocalUser() gave to
\* setUserId, null before.
UserIdState == eu["mount"].ret

\* handleStartRecording (lines 365-383); the button is rendered while
\* nothing is recorded or sent for the item shown.
handleStartRecording ==
    /\ Mounted
    /\ ~ps.isRecording
    /\ ~ps.hasRecording
    /\ ~Recording(ps, ps.currentIndex).sent
    /\ ps' = [ps EXCEPT !.isRecording = TRUE]
    /\ last' = PracticeCall("handleStartRecording")
    /\ UNCHANGED <<dataVars, store, tourVars>>

\* handleStopRecording (lines 385-404), by the button or the timer: a
\* recording shorter than MIN_MS is refused.
handleStopRecording(tooShort) ==
    /\ Mounted
    /\ ps.isRecording
    /\ ps' = [ps EXCEPT !.isRecording = FALSE,
                        !.recorderUri = TRUE,
                        !.hasRecording = ~tooShort]
    /\ last' = PracticeCall("handleStopRecording")
    /\ UNCHANGED <<dataVars, store, tourVars>>

\* The tour after the last lines of handleSend with no condition on the
\* tour.
TourAfterSend_Always(c) == [tour EXCEPT !.step = "profile"]

\* The tour after lines 483-486 of handleSend: markPracticeDone() when the
\* handler was created with an active tour at step practice (correct is
\* always true, evaluateAttempt line 407).
TourAfterSend(c) ==
    IF c.active /\ c.step = "practice"
    THEN [tour EXCEPT !.step = "profile"]
    ELSE tour

\* handleSend from line 413 on, with the id of the user known: the steps up
\* to the await of the preload (line 475).  An item without a mapping
\* ends the handler, and so does a recordAttempt that throws (catch, line
\* 487); otherwise the counters and the recording of the closure's item
\* are set and the handler is suspended at the preload.
SendWithId(p, c, id) ==
    LET target == TargetCanonAr(c.index)
        r == RecordAttemptOn(db, [userId |-> id, targetLetterAr |-> target,
                                  predictedLetterAr |-> target,
                                  correct |-> TRUE])
        observed == [PracticeCall("handleSend") EXCEPT
                        !.value = IF c.active THEN 1 ELSE 0,
                        !.prev = IndexOf(c.step)]
    IN IF target = Null
       THEN /\ ps' = p
            /\ last' = [observed EXCEPT !.result = "Mapping Error"]
            /\ db' = db
       ELSE IF r[1] # "ok"
       THEN /\ ps' = p
            /\ last' = [observed EXCEPT !.result = r[1]]
            /\ db' = db
       ELSE /\ Len(db.attempts) < atStart + MaxSends
            /\ db' = r[2]
            /\ last' = [observed EXCEPT !.result = "ok"]
            /\ ps' = [SetRecording(p, c.index, [uri |-> TRUE, sent |-> TRUE])
                        EXCEPT !.correctItems = @ + 1,
                               !.hasSentRecording = TRUE,
                               !.hasRecording = TRUE,
                               !.pending = Append(@, [c EXCEPT !.kind = "preload",
                                                              !.index = 0])]

\* Send is pressed (handleSend, lines 410-412; the button is enabled by
\* canSend).  With userId set the handler runs on to the preload; with
\* userId null it calls ensureLocalUser() and is suspended at its getItem.
handleSend ==
    /\ Mounted
    /\ ~ps.isRecording
    /\ ps.hasRecording
    /\ ~Recording(ps, ps.currentIndex).sent
    /\ ps.recorderUri
    /\ Len(ps.pending) < MaxTaps
    /\ IF UserIdState # NullInt
       THEN /\ SendWithId(ps, Closure("send"), UserIdState)
            /\ UNCHANGED <<eu, kv, nextId>>
       ELSE /\ eu["handleSend"].pc = "idle"
            /\ eu' = [eu EXCEPT !["handleSend"] =
                        [pc |-> "getItem", id |-> NullInt, ret |-> @.ret]]
            /\ ps' = [ps EXCEPT !.pending = Append(@, Closure("send"))]
            /\ last' = PracticeCall("handleSend")
            /\ UNCHANGED <<db, kv, nextId>>
    /\ UNCHANGED <<migVars, envVars, store, tourVars>>

\* The getItem of the ensureLocalUser() called by handleSend k resolves
\* (user.ts lines 18-23): with an id stored the call returns it and
\* handleSend runs on; without, a users row is inserted and setItem issued.
handleSendGetItem(k) ==
    /\ k \in DOMAIN ps.pending
    /\ ps.pending[k].kind = "send"
    /\ eu["handleSend"].pc = "getItem"
    /\ IF kv # NullInt
       THEN /\ eu' = [eu EXCEPT !["handleSend"] =
                        [pc |-> "idle", id |-> NullInt, ret |-> kv]]
            /\ SendWithId(Resumed(ps, k), ps.pending[k], kv)
            /\ UNCHANGED nextId
       ELSE /\ nextId' = Nanoid
            /\ db' = [db EXCEPT !.users =
                        @ \cup {[id |-> Nanoid, display_name |-> "Local User"]}]
            /\ eu' = [eu EXCEPT !["handleSend"] =
                        [pc |-> "setItem", id |-> Nanoid, ret |-> @.ret]]
            /\ last' = PracticeCall("handleSend")
            /\ UNCHANGED ps
    /\ UNCHANGED <<migVars, kv, envVars, store, tourVars>>

\* The setItem of that ensureLocalUser() completes (user.ts lines 23-24),
\* the call returns the new id and handleSend runs on.
handleSendSetItem(k) ==
    /\ k \in DOMAIN ps.pending
    /\ ps.pending[k].kind = "send"
    /\ eu["handleSend"].pc = "setItem"
    /\ kv' = eu["handleSend"].id
    /\ eu' = [eu EXCEPT !["handleSend"] =
                [pc |-> "idle", id |-> NullInt, ret |-> @.id]]
    /\ SendWithId(Resumed(ps, k), ps.pending[k], eu["handleSend"].id)
    /\ UNCHANGED <<migVars, nextId, envVars, store, tourVars>>

\* The preload of handleSend k is over (lines 470-481) and the handler
\* ends with lines 483-486; markPracticeDone() persists the step.
handleSendEnd(k) ==
    /\ k \in DOMAIN ps.pending
    /\ ps.pending[k].kind = "preload"
    /\ tour' = TourAfterSend(ps.pending[k])
    /\ pend' = IF ps.pending[k].active /\ ps.pending[k].step = "practice"
               THEN Persist("profile")
               ELSE pend
    /\ Cardinality(pend') <= MaxPending
    /\ ps' = Resumed(ps, k)
    /\ last' = [PracticeCall("handleSend") EXCEPT
                  !.result = "done",
                  !.value = IF ps.pending[k].active THEN 1 ELSE 0,
                  !.prev = IndexOf(ps.pending[k].step)]
    /\ UNCHANGED <<dataVars, store, tpc>>

\* What handleRetry does to the state once the file is deleted (lines
\* 528-530).
RetryClear(p, i) ==
    [SetRecording(p, i, NoRecording) EXCEPT !.hasRecording = FALSE,
                                            !.hasSentRecording = FALSE]

\* Retry is pressed (handleRetry, lines 523-527): with a stored uri the
\* handler is suspended at FileSystem.deleteAsync, without it runs on.
handleRetry ==
    /\ Mounted
    /\ ~ps.isRecording
    /\ ps.hasRecording \/ Recording(ps, ps.currentIndex).sent
    /\ IF Recording(ps, ps.currentIndex).uri
       THEN /\ Len(ps.pending) < MaxTaps
            /\ ps' = [ps EXCEPT !.pending = Append(@, Closure("retry"))]
       ELSE ps' = RetryClear(ps, ps.currentIndex)
    /\ last' = PracticeCall("handleRetry")
    /\ UNCHANGED <<dataVars, store, tourVars>>

\* deleteAsync of handleRetry k is over; the handler clears the item of
\* its closure.
handleRetryEnd(k) ==
    /\ k \in DOMAIN ps.pending
    /\ ps.pending[k].kind = "retry"
    /\ ps' = RetryClear(Resumed(ps, k), ps.pending[k].index)
    /\ last' = PracticeCall("handleRetry")
    /\ UNCHANGED <<dataVars, store, tourVars>>

\* Previous is pressed (handlePrev, lines 546-547; the button is enabled
\* unless isFirst): the handler is suspended at stopAllAudio(), which
\* stops the reference sound of the item.
handlePrev ==
    /\ Mounted
    /\ Len(ps.pending) < MaxTaps
    /\ ps.currentIndex # 0
    /\ ps' = [ps EXCEPT !.pending = Append(@, Closure("prev"))]
    /\ last' = PracticeCall("handlePrev")
    /\ UNCHANGED <<dataVars, store, tourVars>>

\* Next is pressed (handleNext, lines 551-556; the button is rendered
\* unless isLast): the handler returns unless hasSentRecording and is
\* suspended at stopAllAudio().
handleNext ==
    /\ Mounted
    /\ Len(ps.pending) < MaxTaps
    /\ ps.currentIndex # MaxItems - 1
    /\ ps.hasSentRecording
    /\ ps' = [ps EXCEPT !.pending = Append(@, Closure("next"))]
    /\ last' = PracticeCall("handleNext")
    /\ UNCHANGED <<dataVars, store, tourVars>>

\* Complete lesson is pressed (handleCompleteLesson, lines 560-565; the
\* button is rendered when isLast): the handler returns unless
\* hasSentRecording and is suspended at stopAllAudio().
handleCompleteLesson ==
    /\ Mounted
    /\ Len(ps.pending) < MaxTaps
    /\ ps.currentIndex = MaxItems - 1
    /\ ps.hasSentRecording
    /\ ps' = [ps EXCEPT !.pending = Append(@, Closure("complete"))]
    /\ last' = PracticeCall("handleCompleteLesson")
    /\ UNCHANGED <<dataVars, store, tourVars>>

\* handlePrev k after stopAllAudio() (line 548): the index of the closure
\* is tested, the index of the state is decreased.
handlePrevEnd(k) ==
    /\ k \in DOMAIN ps.pending
    /\ ps.pending[k].kind = "prev"
    /\ ps' = IF ps.pending[k].index > 0
             THEN ShowItem(Resumed(ps, k), ps.currentIndex - 1)
             ELSE Resumed(ps, k)
    /\ last' = PracticeCall("handlePrev")
    /\ UNCHANGED <<dataVars, store, tourVars>>

\* handleNext k after stopAllAudio() (line 557): the index of the closure
\* is tested, the index of the state is increased.
handleNextEnd(k) ==
    /\ k \in DOMAIN ps.pending
    /\ ps.pending[k].kind = "next"
    /\ ps' = IF ps.pending[k].index < MaxItems - 1
             THEN ShowItem(Resumed(ps, k), ps.currentIndex + 1)
             ELSE Resumed(ps, k)
    /\ last' = PracticeCall("handleNext")
    /\ UNCHANGED <<dataVars, store, tourVars>>

\* handleCompleteLesson k after stopAllAudio() (lines 567-583): Results
\* replaces the screen, with the correctItems of the closure.
handleCompleteLessonEnd(k) ==
    /\ k \in DOMAIN ps.pending
    /\ ps.pending[k].kind = "complete"
    /\ ps' = [Resumed(ps, k) EXCEPT
                !.results = [totalItems |-> MaxItems,
                             correctItems |-> ps.pending[k].correctItems]]
    /\ last' = PracticeCall("handleCompleteLesson")
    /\ UNCHANGED <<dataVars, store, tourVars>>

\* The account Amal is signed in and its tour, started at sign-up, has
\* been taken to step practice by the Home and Levels overlays.
TourAtPractice ==
    /\ store = [SignedInStore("Amal") EXCEPT
                  !.tutorialActive["amal"] = "1",
                  !.tutorialStep["amal"] = "practice"]
    /\ tour = [active |-> TRUE, step |-> "practice", username |-> "Amal"]

\* The account Amal is signed in and no tour is running.
NoTour ==
    /\ store = SignedInStore("Amal")
    /\ tour = [InitialTour EXCEPT !.username = "Amal"]

\* The database after a first start whose seeding threw at the first
\* letter (schema.ts lines 81-84): the version is written, no letter is.
UnseededDb == [MigratedDb EXCEPT !.letters = {}, !.levels = {}]

\* PracticeScreen is mounted on a first start: no local user is stored yet
\* and the mount effect (line 175) has called ensureLocalUser().  The tour
\* is at step practice or not running; the catalog is seeded or not.
PracticeInit ==
    /\ db \in {MigratedDb, UnseededDb}
    /\ atStart = 0
    /\ snap = EmptyDb
    /\ inTx = FALSE
    /\ fkOn = TRUE
    /\ mpc = "idle"
    /\ cur = LatestId
    /\ mi = Len(MIGRATIONS) + 1
    /\ si = Len(CANON_LETTERS)
    /\ outcome = "ok"
    /\ h = NoCall
    /\ kv = NullInt
    /\ eu = [c \in Callers |->
                IF c = "mount" THEN [IdleFrame EXCEPT !.pc = "getItem"]
                ELSE IdleFrame]
    /\ nextId = 0
    /\ last = NoCallYet
    /\ now = StartTime
    /\ TourAtPractice \/ NoTour
    /\ pend = {}
    /\ tpc = IdleTpc
    /\ ps = InitialPractice

\* Sending on the first item: the learner records, sends and retries; the
\* suspended handlers and the mount effect's ensureLocalUser() go on, the
\* step written by markPracticeDone() reaches storage.
SendNext ==
    \/ EuResume("mount")
    \/ EuSetItem("mount")
    \/ handleStartRecording
    \/ \E tooShort \in BOOLEAN : handleStopRecording(tooShort)
    \/ handleSend
    \/ \E k \in 1 .. MaxTaps : handleSendGetItem(k)
    \/ \E k \in 1 .. MaxTaps : handleSendSetItem(k)
    \/ \E k \in 1 .. MaxTaps : handleSendEnd(k)
    \/ handleRetry
    \/ \E k \in 1 .. MaxTaps : handleRetryEnd(k)
    \/ \E w \in pend : PersistDone(w)

SendSpec == PracticeInit /\ [][SendNext]_vars

\* A lesson outside the tour on a seeded catalog, the mount effect's
\* ensureLocalUser() having returned the id of the local user.
LessonInit ==
    /\ db = PractisedDb(0, 0)
    /\ atStart = 0
    /\ snap = EmptyDb
    /\ inTx = FALSE
    /\ fkOn = TRUE
    /\ mpc = "idle"
    /\ cur = LatestId
    /\ mi = Len(MIGRATIONS) + 1
    /\ si = Len(CANON_LETTERS)
    /\ outcome = "ok"
    /\ h = NoCall
    /\ kv = 1
    /\ eu = [c \in Callers |->
                IF c = "mount" THEN [IdleFrame EXCEPT !.ret = 1] ELSE IdleFrame]
    /\ nextId = 1
    /\ last = NoCallYet
    /\ now = StartTime
    /\ NoTour
    /\ pend = {}
    /\ tpc = IdleTpc
    /\ ps = InitialPractice

\* The learner's actions on the screen and the steps of the suspended
\* handlers.
LessonNext ==
    \/ handleStartRecording
    \/ \E tooShort \in BOOLEAN : handleStopRecording(tooShort)
    \/ handleSend
    \/ \E k \in 1 .. MaxTaps : handleSendEnd(k)
    \/ handleRetry
    \/ \E k \in 1 .. MaxTaps : handleRetryEnd(k)
    \/ handlePrev
    \/ handleNext
    \/ handleCompleteLesson
    \/ \E k \in 1 .. MaxTaps : handlePrevEnd(k)
    \/ \E k \in 1 .. MaxTaps : handleNextEnd(k)
    \/ \E k \in 1 .. MaxTaps : handleCompleteLessonEnd(k)

LessonSpec == LessonInit /\ [][LessonNext]_vars

---------------------------------------------------------------------------
(* Properties of PracticeScreen *)

\* An attempt for item i has been sent and not been cleared by Retry since.
SentAttempt(p, i) == Recording(p, i).sent

\* C23: the learner cannot move past an item without a sent attempt: a
\* step that increases currentIndex (handleNext) or navigates to Results
\* (handleCompleteLesson) is taken only when an attempt for the item shown
\* has been sent and not been cleared by Retry since, after any sequence
\* of record, send, retry, previous and next actions.
C23_NoMoveWithoutSentAttempt ==
    [][ (\/ ps'.currentIndex > ps.currentIndex
         \/ ps.results = NoResults /\ ps'.results # NoResults)
        => SentAttempt(ps, ps.currentIndex) ]_vars

\* The step ends the handleSend with closure number k, whose attempt was
\* stored.
SendEnds(k) ==
    /\ ps.pending[k].kind = "preload"
    /\ ps'.pending = Without(ps.pending, k)

\* C24: during an active tour at step practice, a send whose attempt is
\* stored moves the tour to step profile (the first one does, the tour is
\* at profile for the later ones); a send whose recordAttempt fails, and a
\* send made while the tour is inactive or at another step, leaves the
\* tour step and active flag unchanged: they change only when a send made
\* at step practice of an active tour ends with its attempt stored.
C24_FirstStoredSendMovesTour ==
    [][ /\ \A k \in DOMAIN ps.pending :
              (/\ SendEnds(k)
               /\ ps.pending[k].active
               /\ ps.pending[k].step = "practice")
              => tour'.active /\ tour'.step = "profile"
        /\ (tour'.step # tour.step \/ tour'.active # tour.active)
              => /\ tour.active
                 /\ tour.step = "practice"
                 /\ \E k \in DOMAIN ps.pending :
                       /\ SendEnds(k)
                       /\ ps.pending[k].active
                       /\ ps.pending[k].step = "practice" ]_vars

\* The first attempt was stored by a send made at step practice of the
\* active tour, the send has ended, and the tour is at step profile.
C24_Witness ==
    /\ last.op = "handleSend"
    /\ last.result = "done"
    /\ last.value = 1
    /\ last.prev = IndexOf("practice")
    /\ Len(db.attempts) = 1
    /\ tour.active
    /\ tour.step = "profile"

\* C30: for any sequence of record, send, retry, previous and next actions
\* within one lesson, correctItems never exceeds the number of items of
\* the level, and Results never receives correctItems greater than
\* totalItems.
C30_CorrectItemsWithinLevel ==
    /\ ps.correctItems <= MaxItems
    /\ ps.results # NoResults
          => ps.results.correctItems <= ps.results.totalItems

====
